---- MODULE Spec2Model ----
(***************************************************************************)
(* A model of deka-gst-wgpu: the WGPU buffer/texture GstMemory objects     *)
(* (buffer_memory.rs, texture_memory.rs) and the shared device context     *)
(* with its background poll thread (context.rs), and the transform stages  *)
(* of the image-processing plugin that move data between such memories.    *)
(***************************************************************************)
EXTENDS Integers, Sequences, FiniteSets, TLC

VARIABLES
    \* ---- the memory object (buffer_memory.rs / texture_memory.rs) ----
    kind,         \* "buffer" (WgpuMemory) or "texture" (WgpuTextureMemory)
    usage,        \* wgpu::BufferUsages of the buffer, fixed at allocation
    mem_flags,    \* GstMemoryFlags gst_memory_init stored in the object
    poll_type,    \* PollType of the context the object is bound to
    buffer_view,  \* WgpuMemory.buffer_view: NoView or the recorded view
    dev_map,      \* the device's mapping state of the buffer
    pc,           \* per calling thread: position inside gst_wgpu_mem_map
    mode,         \* per thread: wgpu::MapMode chosen from the GstMapFlags
    issued,       \* per thread: mode of the map_async request of this call
    chan,         \* per thread: the sync_channel(1) of this call
    ret,          \* per thread: what the last map call returned
    aborted,      \* the process died in a panic inside wgpu
    released,     \* what WgpuMemoryAllocator::free has released so far, in order
    \* ---- the device context (context.rs) ----
    refs,         \* strong references held by stages, allocators, memories
    poller_ref,   \* the poll thread holds a transient upgrade of its weak ref
    running,      \* WgpuContext.running (AtomicBool)
    poll_thread,  \* WgpuContext.poll_thread holds the JoinHandle
    ppc,          \* position of the poll thread
    disposer,     \* the thread on which dispose runs
    dpc,          \* position inside dispose
    \* ---- one transform stage (plugins-image-processing) ----
    stage,        \* which element this is
    sink_usages,  \* the stage's recorded input-side usage mask
    src_usages,   \* the stage's recorded output-side usage mask
    video_info,   \* the parent class holds negotiated video info / pipeline
    in_info,      \* width and height of the negotiated input video info
    passthrough,  \* BaseTransform's passthrough flag
    panicked,     \* a callback of the element panicked
    call,         \* the last callback the host made, its inputs and outcome
    \* ---- the staging buffers of wgpusobelmem (wgpu_sobel_mem/imp.rs) ----
    input_buffer, \* mapping state of WebGPUState.input_buffer
    output_buffer, \* mapping state of WebGPUState.output_buffer
    \* ---- the compute filters' pipeline (WebGPUState) ----
    pipeline,     \* sizes of WebGPUState.input_texture and output_texture
    \* ---- one buffer travelling through upload, copy and download ----
    pipe,         \* where the buffer is, its memory and its bytes
    \* ---- the contexts of one element and its start ----
    elem          \* the stage's wgpu_context, the element's context, start

memVars == <<kind, usage, mem_flags, buffer_view, dev_map, pc, mode, issued, chan, ret,
             aborted, released>>
ctxVars == <<refs, poller_ref, running, poll_thread, ppc, disposer, dpc>>
sobelVars == <<input_buffer, output_buffer, pipeline>>
stageVars == <<stage, sink_usages, src_usages, video_info, in_info,
               passthrough, panicked, call, input_buffer, output_buffer,
               pipeline, pipe, elem>>
vars == <<kind, usage, mem_flags, poll_type, buffer_view, dev_map, pc, mode, issued, chan,
          ret, aborted, released, refs, poller_ref, running, poll_thread, ppc,
          disposer, dpc, stage, sink_usages, src_usages, video_info, in_info,
          passthrough, panicked, call, input_buffer, output_buffer, pipeline,
          pipe, elem>>

(***************************************************************************)
(* Domains                                                                 *)
(***************************************************************************)
\* The threads that may call into one memory object.
Threads == {"A", "B"}

\* enum PollType
PollTypes == {"Threaded", "ThreadedBusy", "Manual"}

\* wgpu::BufferUsages bits the allocator and the stages use.
UsageBits == {"MAP_READ", "MAP_WRITE", "COPY_SRC", "COPY_DST"}

\* GstMapFlags bits gst_wgpu_mem_map looks at.
MapFlagBits == {"GST_MAP_READ", "GST_MAP_WRITE"}

NoView == [mode |-> "None", owner |-> "None"]

\* Every return of gst_wgpu_mem_map other than "ptr" is a null pointer; the
\* name is the error the code logs on that path.
NullReturns == {"InvalidFlags", "AlreadyMapped", "NotMapWrite", "NoResponse",
                "MapFailed"}

\* Completions a device poll can deliver for a pending map_async: the callback
\* fires with Ok, fires with Err, or is dropped without firing (the sender is
\* dropped, the receiver sees a disconnect).
Outcomes == {"ok", "err", "closed"}

(***************************************************************************)
(* Domains of the transform stages                                         *)
(***************************************************************************)
\* The elements of the plugin: wgpubufferupload, wgpubufferdownload (which is
\* also the buffer-to-buffer copy), wgputextureupload, wgputexturecopy and
\* the compute filter wgpusobelbuf.
Stages == {"Upload", "Download", "TextureUpload", "TextureCopy", "ComputeFilter"}

\* Flags of wgpu::BufferUsages and of wgpu::TextureUsages the stages test.
BufferFlags == UsageBits
TextureFlags == {"COPY_SRC", "COPY_DST", "TEXTURE_BINDING", "STORAGE_BINDING"}

\* Largest byte size of a buffer memory handed to a stage.
MaxSize == 2

\* The first GstMemory of a buffer handed to a stage: system memory, or a
\* WGPU buffer / texture memory with the context it is bound to ("own" is the
\* stage's context) and the usage mask of the device resource.
SystemMem == {[kind |-> "system", ctx |-> "none", usage |-> {}, size |-> n] :
                n \in {MaxSize}}
BufferMem == {[kind |-> "buffer", ctx |-> c, usage |-> u, size |-> n] :
                c \in {"own", "other"},
                u \in {{"MAP_WRITE", "COPY_SRC"}, {"MAP_READ", "COPY_DST"},
                       {"COPY_SRC"}},
                n \in 1..MaxSize}
TextureMem == {[kind |-> "texture", ctx |-> c, usage |-> u, size |-> 0] :
                c \in {"own", "other"},
                u \in {{"COPY_SRC", "TEXTURE_BINDING"},
                       {"COPY_DST", "STORAGE_BINDING"}}}
Memories == SystemMem \cup BufferMem \cup TextureMem
\* The memory of an output buffer comes from the allocator the stage settled
\* on with its downstream peer: of any kind, never of another context.
OutMemories == {m \in Memories : m.ctx # "other"}
NoMem == [kind |-> "none", ctx |-> "none", usage |-> {}, size |-> 0]

\* Largest width and height of a video frame, in pixels, next to the 64 of
\* the reference frame.
MaxDim == 9
Dims == (1..MaxDim) \cup {64}

\* The width and height a gst_video::VideoInfo carries; NoInfo while the
\* parent class holds none.
NoInfo == [width |-> 0, height |-> 0]
Infos == {[width |-> w, height |-> h] : w \in Dims, h \in Dims}

\* One side of the caps handed to set_caps, or the caps of an allocation
\* query: absent, without a structure, with a structure that has no usage
\* field, or with a usage field of raw bits.  "UNDEFINED" stands for a bit of
\* the u32 that names no flag of the usages type.
NoCaps == [present |-> FALSE, structure |-> FALSE, field |-> FALSE, bits |-> {}]
NoStructure == [present |-> TRUE, structure |-> FALSE, field |-> FALSE, bits |-> {}]
NoField == [present |-> TRUE, structure |-> TRUE, field |-> FALSE, bits |-> {}]
UsageCaps(b) == [present |-> TRUE, structure |-> TRUE, field |-> TRUE, bits |-> b]
BufferCaps == {NoStructure, NoField} \cup
              {UsageCaps(b) : b \in {{}, {"MAP_WRITE"}, {"MAP_WRITE", "COPY_SRC"},
                                     {"MAP_READ", "COPY_DST"},
                                     {"COPY_SRC", "UNDEFINED"}, {"COPY_DST"}}}
TextureCaps == {NoStructure, NoField} \cup
               {UsageCaps(b) : b \in {{}, {"COPY_SRC"}, {"COPY_DST"},
                                      {"COPY_DST", "UNDEFINED"},
                                      {"TEXTURE_BINDING"}}}
\* Caps of system memory: a structure, no usage field.
HostCaps == {NoField}

\* The caps each stage negotiates on its sink and on its source pad.
SinkCaps(s) ==
    CASE s = "Upload" -> HostCaps
      [] s = "Download" -> BufferCaps
      [] s = "TextureUpload" -> BufferCaps
      [] s = "TextureCopy" -> TextureCaps
      [] s = "ComputeFilter" -> BufferCaps
SrcCaps(s) ==
    CASE s = "Upload" -> BufferCaps
      [] s = "Download" -> HostCaps
      [] s = "TextureUpload" -> TextureCaps
      [] s = "TextureCopy" -> TextureCaps
      [] s = "ComputeFilter" -> BufferCaps

\* An allocator in an allocation query: of another kind, or a WGPU buffer /
\* texture allocator with the usage it allocates with ("explicit" FALSE: the
\* buffer allocator derives the usage per allocation) and the READONLY flag of
\* its allocation params.
Allocator(k, e, u, r) ==
    [kind |-> k, explicit |-> e, usage |-> u, readonly |-> r, width |-> 0,
     height |-> 0]
Allocators ==
    {Allocator("system", FALSE, {}, FALSE)}
    \cup {Allocator("buffer", TRUE, u, FALSE) :
            u \in {{"MAP_WRITE", "COPY_SRC"}, {"COPY_DST"}}}
    \cup {Allocator("buffer", FALSE, {}, r) : r \in BOOLEAN}
    \cup {Allocator("texture", TRUE, u, FALSE) : u \in {{"COPY_DST"}, {"COPY_SRC"}}}
\* The allocation params of a query: at most one proposed allocator.
Queries == {<<>>} \cup {<<a>> : a \in Allocators}

\* A device command a stage encodes and submits; every copy in the stages
\* starts at offset (origin) 0 of its source and of its destination.
Command(k, s, d, n) ==
    [kind |-> k, src |-> s, src_offset |-> 0, dst |-> d, dst_offset |-> 0,
     size |-> n, extent |-> <<0, 0, 0>>]

\* A command over a three-dimensional extent: the wgpu::Extent3d of a
\* texture copy, or the work-group counts of a dispatch.
ExtentCommand(k, s, d, e) == [Command(k, s, d, 0) EXCEPT !.extent = e]

\* What the host last asked of the stage.  ret is "pending" while the
\* calling thread is inside the callback.
NoCall == [op |-> "none", ret |-> "none", inmem |-> NoMem, outmem |-> NoMem,
           incaps |-> NoCaps, outcaps |-> NoCaps, proposed |-> <<>>,
           query |-> <<>>,
           writable |-> TRUE, was |-> FALSE, cmds |-> <<>>, added |-> 0,
           complete |-> FALSE, direction |-> "none", caps |-> <<>>,
           filter |-> [given |-> FALSE, caps |-> <<>>],
           offered |-> <<>>, returned |-> <<>>, env |-> {}, trace |-> <<>>,
           context |-> "none", created |-> FALSE, published |-> FALSE,
           signalled |-> FALSE]

\* self.pipeline is None.
NoPipeline == [input_texture |-> <<0, 0>>, output_texture |-> <<0, 0>>]

\* An element that was not started and was given no context: wgpu_context
\* is the stage's field, element_context what element.context() of the WGPU
\* type returns, spc the position of start, created the context start made,
\* published the context of the have-context message posted.
NoElem == [wgpu_context |-> "none", element_context |-> "none", spc |-> "idle",
           created |-> "none", published |-> "none"]

\* An element whose start created its context.
StartedElem == [wgpu_context |-> "own", element_context |-> "own", spc |-> "done",
                created |-> "own", published |-> "own"]

\* No buffer is travelling.
NoPipe == [pos |-> "none", input |-> <<>>, mem |-> NoMem, data |-> <<>>,
           copies |-> 0, output |-> <<>>]

\* The stage of a model of the memory object or of the context alone: an
\* element that has not been asked anything.
ElementIdle ==
    /\ stage = "Upload" /\ sink_usages = {} /\ src_usages = {}
    /\ video_info = FALSE /\ passthrough = FALSE /\ panicked = FALSE
    /\ in_info = NoInfo
    /\ call = NoCall
    /\ input_buffer = "none" /\ output_buffer = "none"
    /\ pipeline = NoPipeline
    /\ elem = NoElem

StageIdle == ElementIdle /\ pipe = NoPipe

(***************************************************************************)
(* gst_wgpu_mem_map / WgpuMemory (buffer_memory.rs)                        *)
(***************************************************************************)
\* The object is allocated and free has not started on it.
Live == released = <<>> /\ ~aborted

\* The mode gst_wgpu_mem_map derives from the GstMapFlags; "Invalid" when
\* neither GST_MAP_READ nor GST_MAP_WRITE is set.
MapMode(flags) ==
    IF "GST_MAP_WRITE" \in flags THEN "Write"
    ELSE IF "GST_MAP_READ" \in flags THEN "Read"
    ELSE "Invalid"

\* A faulty variant: the live-view test is left out.
ViewIsSomeSkipped == FALSE

\* mem_ref.buffer_view.lock().is_some()
ViewIsSome == buffer_view # NoView

\* self.buffer.usage().contains(MAP_READ)
CanMapRead == "MAP_READ" \in usage

\* A faulty variant: map_write does not test the usage mask.
CanMapWriteUnchecked == TRUE

\* self.buffer.usage().contains(MAP_WRITE)
CanMapWrite == "MAP_WRITE" \in usage

\* A faulty variant: poll_map polls the device itself in every poll mode.
PollMapEntryAlwaysPolls == "try_recv"

\* Where poll_map waits: the caller's own try_recv/poll loop in Manual mode,
\* a blocking recv in the threaded modes.
PollMapEntry == IF poll_type = "Manual" THEN "try_recv" ELSE "recv"

\* A faulty variant: the loop gives up while the channel is still empty.
LoopGivesUp(t) == FALSE

\* The condition of poll_map's while loop: the last try_recv was Empty.
LoopContinues(t) == chan[t] = "empty"

\* The threads whose map_async callback the device still holds.
Pending == {t \in Threads : chan[t] = "empty"}

\* A device poll delivers outcome o to the pending callbacks ("none": the
\* mapping is not ready and nothing is delivered).
Resolved(o) ==
    IF o = "none" THEN chan
    ELSE [t \in Threads |-> IF t \in Pending THEN o ELSE chan[t]]

DevMapAfter(o) ==
    IF o = "none" \/ Pending = {} THEN dev_map
    ELSE IF o = "ok" THEN "mapped" ELSE "idle"

\* gst_wgpu_mem_map up to the dispatch on the mode: the flags are decoded, an
\* object with a live view is refused, otherwise map_read or map_write runs.
MemMap(t, flags) ==
    /\ Live /\ kind = "buffer"
    /\ pc[t] = "idle"
    /\ mode' = [mode EXCEPT ![t] = MapMode(flags)]
    /\ issued' = [issued EXCEPT ![t] = "None"]
    /\ chan' = [chan EXCEPT ![t] = "none"]
    /\ IF MapMode(flags) = "Invalid"
       THEN /\ ret' = [ret EXCEPT ![t] = "InvalidFlags"]
            /\ pc' = pc
       ELSE IF ViewIsSome
       THEN /\ ret' = [ret EXCEPT ![t] = "AlreadyMapped"]
            /\ pc' = pc
       ELSE /\ ret' = [ret EXCEPT ![t] = "none"]
            /\ pc' = [pc EXCEPT ![t] =
                        IF MapMode(flags) = "Read" THEN "map_read" ELSE "map_write"]
    /\ UNCHANGED <<kind, usage, mem_flags, poll_type, buffer_view, dev_map, aborted, released>>
    /\ UNCHANGED <<ctxVars, stageVars>>

\* buffer.map_async(m, ..size, callback): the request goes to the device with
\* the sending half of a fresh channel. A request for a buffer that already
\* has a mapping pending or established is refused by wgpu: the call panics,
\* or the callback is invoked at once with an error.
MapAsync(t, m) ==
    /\ issued' = [issued EXCEPT ![t] = m]
    /\ IF dev_map = "idle"
       THEN /\ chan' = [chan EXCEPT ![t] = "empty"]
            /\ dev_map' = "pending"
            /\ pc' = [pc EXCEPT ![t] = PollMapEntry]
            /\ aborted' = aborted
       ELSE \E o \in {"panic", "err"} :
            /\ dev_map' = dev_map
            /\ IF o = "panic"
               THEN /\ aborted' = TRUE
                    /\ UNCHANGED <<chan, pc>>
               ELSE /\ aborted' = aborted
                    /\ chan' = [chan EXCEPT ![t] = "err"]
                    /\ pc' = [pc EXCEPT ![t] = PollMapEntry]

\* WgpuMemory::map_read up to poll_map: without MAP_READ it falls back to
\* map_write, otherwise it requests a read mapping.
MapRead(t) ==
    /\ Live
    /\ pc[t] = "map_read"
    /\ IF ~CanMapRead
       THEN /\ pc' = [pc EXCEPT ![t] = "map_write"]
            /\ UNCHANGED <<issued, chan, dev_map, aborted>>
       ELSE MapAsync(t, "Read")
    /\ UNCHANGED <<kind, usage, mem_flags, poll_type, buffer_view, mode, ret, released>>
    /\ UNCHANGED <<ctxVars, stageVars>>

\* WgpuMemory::map_write up to poll_map: without MAP_WRITE it returns null,
\* otherwise it requests a write mapping.
MapWrite(t) ==
    /\ Live
    /\ pc[t] = "map_write"
    /\ IF ~CanMapWrite
       THEN /\ pc' = [pc EXCEPT ![t] = "idle"]
            /\ ret' = [ret EXCEPT ![t] = "NotMapWrite"]
            /\ UNCHANGED <<issued, chan, dev_map, aborted>>
       ELSE /\ MapAsync(t, "Write")
            /\ ret' = ret
    /\ UNCHANGED <<kind, usage, mem_flags, poll_type, buffer_view, mode, released>>
    /\ UNCHANGED <<ctxVars, stageVars>>

\* The end of poll_map once the channel has answered: Ok goes on to on_map,
\* an error or a disconnected channel returns null.
Finish(t) ==
    /\ pc' = [pc EXCEPT ![t] = IF chan[t] = "ok" THEN "on_map" ELSE "idle"]
    /\ ret' = [ret EXCEPT ![t] =
                 IF chan[t] = "ok" THEN "none"
                 ELSE IF chan[t] = "err" THEN "MapFailed" ELSE "NoResponse"]

\* poll_map, Manual mode: rx.try_recv() and the test of the while loop.
TryRecv(t) ==
    /\ Live
    /\ pc[t] = "try_recv"
    /\ IF LoopContinues(t)
       THEN /\ pc' = [pc EXCEPT ![t] = "poll"]
            /\ ret' = ret
       ELSE Finish(t)
    /\ UNCHANGED <<kind, usage, mem_flags, poll_type, buffer_view, dev_map, mode, issued,
                   chan, aborted, released>>
    /\ UNCHANGED <<ctxVars, stageVars>>

\* poll_map, Manual mode: the body of the while loop, one
\* device.poll(Wait { timeout: 250 ms }); the poll may or may not complete the
\* mapping.
ManualPoll(t) ==
    /\ Live
    /\ pc[t] = "poll"
    /\ \E o \in Outcomes \cup {"none"} :
        /\ chan' = Resolved(o)
        /\ dev_map' = DevMapAfter(o)
    /\ pc' = [pc EXCEPT ![t] = "try_recv"]
    /\ UNCHANGED <<kind, usage, mem_flags, poll_type, buffer_view, mode, issued, ret,
                   aborted, released>>
    /\ UNCHANGED <<ctxVars, stageVars>>

\* poll_map, threaded modes: rx.recv() returns once the callback has fired or
\* has been dropped.
Recv(t) ==
    /\ Live
    /\ pc[t] = "recv"
    /\ chan[t] # "empty"
    /\ Finish(t)
    /\ UNCHANGED <<kind, usage, mem_flags, poll_type, buffer_view, dev_map, mode, issued,
                   chan, aborted, released>>
    /\ UNCHANGED <<ctxVars, stageVars>>

\* The on_map closure: get_mapped_range, then the view is stored under the
\* lock and its pointer returned. get_mapped_range panics when the buffer is
\* no longer mapped.
OnMap(t) ==
    /\ Live
    /\ pc[t] = "on_map"
    /\ IF dev_map = "mapped"
       THEN /\ buffer_view' = [mode |-> issued[t], owner |-> t]
            /\ pc' = [pc EXCEPT ![t] = "idle"]
            /\ ret' = [ret EXCEPT ![t] = "ptr"]
            /\ aborted' = aborted
       ELSE /\ aborted' = TRUE
            /\ UNCHANGED <<buffer_view, pc, ret>>
    /\ UNCHANGED <<kind, usage, mem_flags, poll_type, dev_map, mode, issued, chan, released>>
    /\ UNCHANGED <<ctxVars, stageVars>>

\* A faulty variant: unmap keeps the recorded view.
ViewAfterUnmapKept == buffer_view

\* *self.buffer_view.lock() = None
ViewAfterUnmap == NoView

\* gst_wgpu_mem_unmap / WgpuMemory::unmap: the view is dropped, the buffer is
\* unmapped on the device (a mapping still pending is cancelled: its callback
\* gets an error or is dropped), and the device is polled once without
\* blocking.
Unmap(t) ==
    /\ Live /\ kind = "buffer"
    /\ pc[t] = "idle"
    /\ buffer_view' = ViewAfterUnmap
    /\ dev_map' = "idle"
    /\ \E o \in {"err", "closed"} : chan' = Resolved(o)
    /\ UNCHANGED <<kind, usage, mem_flags, poll_type, pc, mode, issued, ret, aborted, released>>
    /\ UNCHANGED <<ctxVars, stageVars>>

\* One iteration of the context's poll thread (context.rs, the loop of
\* from_inner) that completes the pending mapping.
PollerPoll ==
    /\ Live
    /\ poll_type # "Manual"
    /\ Pending # {}
    /\ \E o \in Outcomes :
        /\ chan' = Resolved(o)
        /\ dev_map' = DevMapAfter(o)
    /\ UNCHANGED <<kind, usage, mem_flags, poll_type, buffer_view, pc, mode, issued, ret,
                   aborted, released>>
    /\ UNCHANGED <<ctxVars, stageVars>>

(***************************************************************************)
(* WgpuMemoryAllocator::free (buffer_memory.rs, texture_memory.rs)         *)
(***************************************************************************)
\* A faulty variant: the buffer is dropped before the context.
BufferFreeStepsResourceFirst == <<"resource", "context", "allocator", "record">>

\* The releases of the buffer allocator's free, in statement order.
BufferFreeSteps == <<"context", "resource", "allocator", "record">>

\* The releases of the texture allocator's free, in statement order.
TextureFreeSteps == <<"context", "resource", "allocator", "record">>

FreeSteps == IF kind = "buffer" THEN BufferFreeSteps ELSE TextureFreeSteps

\* The next statement of free. free runs when the last reference to the
\* memory is gone, so no map or unmap call is in progress.
FreeStep ==
    /\ ~aborted
    /\ \A t \in Threads : pc[t] = "idle"
    /\ Len(released) < Len(FreeSteps)
    /\ released' = Append(released, FreeSteps[Len(released) + 1])
    /\ UNCHANGED <<kind, usage, mem_flags, poll_type, buffer_view, dev_map, pc, mode, issued,
                   chan, ret, aborted>>
    /\ UNCHANGED <<ctxVars, stageVars>>

(***************************************************************************)
(* Specifications of the memory object                                     *)
(***************************************************************************)
CtxIdle ==
    /\ refs = 1 /\ poller_ref = FALSE /\ running = FALSE /\ poll_thread = TRUE
    /\ ppc = "spawned" /\ disposer = "none" /\ dpc = "none"

\* bitflags' from_bits_truncate: the bits that name a flag of the type.
FromBitsTruncate(bits, flags) == bits \cap flags

\* GstMemoryFlags bits of the allocation params.
MemoryFlagBits == {"READONLY", "ZERO_PREFIXED"}

\* A faulty variant: every buffer is allocated for writing.
AllocUsagesWritable(flags) == {"COPY_SRC", "MAP_WRITE"}

\* The usage mask WgpuMemoryAllocator::alloc creates the buffer with.
AllocUsages(flags) ==
    IF "READONLY" \in FromBitsTruncate(flags, MemoryFlagBits)
    THEN {"COPY_DST", "MAP_READ"}
    ELSE {"COPY_SRC", "MAP_WRITE"}

\* The object is in no call and has no view.
MemFresh ==
    /\ poll_type \in PollTypes
    /\ buffer_view = NoView
    /\ dev_map = "idle"
    /\ pc = [t \in Threads |-> "idle"]
    /\ mode = [t \in Threads |-> "Invalid"]
    /\ issued = [t \in Threads |-> "None"]
    /\ chan = [t \in Threads |-> "none"]
    /\ ret = [t \in Threads |-> "none"]
    /\ aborted = FALSE
    /\ released = <<>>
    /\ CtxIdle
    /\ StageIdle

\* What WgpuMemoryAllocator::alloc returns for allocation params of any
\* flags: a buffer memory carrying the flags, its buffer created with the
\* mask derived from them.
AllocInit ==
    /\ kind = "buffer"
    /\ mem_flags \in SUBSET MemoryFlagBits
    /\ usage = AllocUsages(mem_flags)
    /\ MemFresh

\* A freshly allocated object of any allocator of the library, with default
\* allocation params: any usage mask for a buffer, bound to a context
\* of any poll type, no view, no call in progress.
MemInit ==
    /\ kind \in {"buffer", "texture"}
    /\ usage \in (IF kind = "buffer" THEN SUBSET UsageBits ELSE {{}})
    /\ mem_flags = {}
    /\ poll_type \in PollTypes
    /\ buffer_view = NoView
    /\ dev_map = "idle"
    /\ pc = [t \in Threads |-> "idle"]
    /\ mode = [t \in Threads |-> "Invalid"]
    /\ issued = [t \in Threads |-> "None"]
    /\ chan = [t \in Threads |-> "none"]
    /\ ret = [t \in Threads |-> "none"]
    /\ aborted = FALSE
    /\ released = <<>>
    /\ CtxIdle
    /\ StageIdle

\* No other thread is inside a call on the object.
Quiet(t) == \A u \in Threads \ {t} : pc[u] = "idle"

\* Calls from any thread, in any interleaving.
MemNext ==
    \/ \E t \in Threads, flags \in SUBSET MapFlagBits : MemMap(t, flags)
    \/ \E t \in Threads : MapRead(t)
    \/ \E t \in Threads : MapWrite(t)
    \/ \E t \in Threads : TryRecv(t)
    \/ \E t \in Threads : ManualPoll(t)
    \/ \E t \in Threads : Recv(t)
    \/ \E t \in Threads : OnMap(t)
    \/ \E t \in Threads : Unmap(t)
    \/ PollerPoll
    \/ FreeStep

MemSpec == MemInit /\ [][MemNext]_vars

\* The calls on an object the allocator without explicit usage allocated.
AllocSpec == AllocInit /\ [][MemNext]_vars

\* A sequential series of calls: a call starts only when no other is in
\* progress.
SeqNext ==
    \/ \E t \in Threads, flags \in SUBSET MapFlagBits : Quiet(t) /\ MemMap(t, flags)
    \/ \E t \in Threads : MapRead(t)
    \/ \E t \in Threads : MapWrite(t)
    \/ \E t \in Threads : TryRecv(t)
    \/ \E t \in Threads : ManualPoll(t)
    \/ \E t \in Threads : Recv(t)
    \/ \E t \in Threads : OnMap(t)
    \/ \E t \in Threads : Quiet(t) /\ Unmap(t)
    \/ PollerPoll
    \/ FreeStep

SeqSpec == MemInit /\ [][SeqNext]_vars

\* The calling threads keep running, and the poll thread's polls complete a
\* pending mapping. Nothing obliges a caller's own poll to complete it.
SeqLiveSpec ==
    /\ SeqSpec
    /\ \A t \in Threads :
        /\ WF_vars(MapRead(t)) /\ WF_vars(MapWrite(t)) /\ WF_vars(TryRecv(t))
        /\ WF_vars(ManualPoll(t)) /\ WF_vars(Recv(t)) /\ WF_vars(OnMap(t))
    /\ WF_vars(PollerPoll)

TypeOK ==
    /\ kind \in {"buffer", "texture"}
    /\ usage \subseteq UsageBits
    /\ poll_type \in PollTypes
    /\ buffer_view \in {NoView} \cup [mode : {"Read", "Write"}, owner : Threads]
    /\ dev_map \in {"idle", "pending", "mapped"}
    /\ pc \in [Threads -> {"idle", "map_read", "map_write", "try_recv", "poll",
                           "recv", "on_map"}]
    /\ mode \in [Threads -> {"Read", "Write", "Invalid"}]
    /\ issued \in [Threads -> {"None", "Read", "Write"}]
    /\ chan \in [Threads -> {"none", "empty"} \cup Outcomes]
    /\ ret \in [Threads -> {"none", "ptr"} \cup NullReturns]
    /\ aborted \in BOOLEAN
    /\ released \in Seq({"context", "resource", "allocator", "record"})

(***************************************************************************)
(* WgpuContext: references, the poll thread, dispose (context.rs)          *)
(***************************************************************************)
\* How many holders (stages, allocators, memories) share one context.
MaxHolders == 2

\* obj.upgrade() on the poll thread's weak reference yields a strong
\* reference until the last strong reference is being dropped: GObject clears
\* weak references before it calls dispose.
CanUpgrade == disposer = "none"

\* A faulty variant: the Manual arm does not return and falls into the loop.
PollerEntryAlwaysLoops == "store_true"

\* Where the poll thread goes from its entry: the Manual arm logs and returns,
\* the threaded arms go on to the loop.
PollerEntry == IF poll_type = "Manual" THEN "manual_upgrade" ELSE "store_true"

\* The positions of the poll thread inside `while running.load(..)`.
LoopPositions == {"loop_test", "loop_upgrade", "loop_drop", "poll", "err_upgrade",
                  "err_log"}

\* A holder clones the context (WgpuContext::clone, as_gst_context, alloc).
CloneRef ==
    /\ disposer = "none"
    /\ refs >= 1 /\ refs < MaxHolders
    /\ refs' = refs + 1
    /\ UNCHANGED <<poll_type, poller_ref, running, poll_thread, ppc, disposer, dpc>>
    /\ UNCHANGED <<memVars, stageVars>>

\* A holder drops its reference; dispose starts on its thread when it was the
\* last strong reference.
DropRef ==
    /\ refs >= 1
    /\ refs' = refs - 1
    /\ IF refs = 1 /\ ~poller_ref
       THEN disposer' = "holder" /\ dpc' = "store"
       ELSE UNCHANGED <<disposer, dpc>>
    /\ UNCHANGED <<poll_type, poller_ref, running, poll_thread, ppc>>
    /\ UNCHANGED <<memVars, stageVars>>

\* The poll thread starts: `match poll_type`.
PollerStart ==
    /\ ppc = "spawned"
    /\ ppc' = PollerEntry
    /\ UNCHANGED <<poll_type, refs, poller_ref, running, poll_thread, disposer, dpc>>
    /\ UNCHANGED <<memVars, stageVars>>

\* running.store(true, Relaxed)
PollerStoreTrue ==
    /\ ppc = "store_true"
    /\ running' = TRUE
    /\ ppc' = "started_upgrade"
    /\ UNCHANGED <<poll_type, refs, poller_ref, poll_thread, disposer, dpc>>
    /\ UNCHANGED <<memVars, stageVars>>

\* `if let Some(obj) = obj.upgrade()` before a log line (Manual arm, "ctx
\* started", "poll error"), and `obj.upgrade().is_none()` in the loop: the
\* poll thread takes a strong reference when the context is still alive.
PollerUpgrade ==
    /\ ppc \in {"manual_upgrade", "started_upgrade", "loop_upgrade", "err_upgrade"}
    /\ IF CanUpgrade
       THEN /\ poller_ref' = TRUE
            /\ ppc' = CASE ppc = "manual_upgrade" -> "manual_log"
                        [] ppc = "started_upgrade" -> "started_log"
                        [] ppc = "loop_upgrade" -> "loop_drop"
                        [] OTHER -> "err_log"
       ELSE /\ poller_ref' = poller_ref
            /\ ppc' = CASE ppc = "manual_upgrade" -> "exited"
                        [] ppc = "started_upgrade" -> "loop_test"
                        [] ppc = "loop_upgrade" -> "store_false"
                        [] OTHER -> "loop_test"
    /\ UNCHANGED <<poll_type, refs, running, poll_thread, disposer, dpc>>
    /\ UNCHANGED <<memVars, stageVars>>

\* The strong reference taken by upgrade goes out of scope. When the holders
\* have dropped theirs meanwhile it is the last one, and dispose runs here, on
\* the poll thread.
PollerDropRef ==
    /\ ppc \in {"manual_log", "started_log", "loop_drop", "err_log"}
    /\ poller_ref' = FALSE
    /\ IF refs = 0
       THEN /\ disposer' = "poller"
            /\ dpc' = "store"
            /\ ppc' = "in_dispose"
       ELSE /\ UNCHANGED <<disposer, dpc>>
            /\ ppc' = CASE ppc = "manual_log" -> "exited"
                        [] ppc = "started_log" -> "loop_test"
                        [] ppc = "loop_drop" -> "poll"
                        [] OTHER -> "loop_test"
    /\ UNCHANGED <<poll_type, refs, running, poll_thread>>
    /\ UNCHANGED <<memVars, stageVars>>

\* `while running.load(Acquire)`
PollerLoopTest ==
    /\ ppc = "loop_test"
    /\ ppc' = IF running THEN "loop_upgrade" ELSE "store_false"
    /\ UNCHANGED <<poll_type, refs, poller_ref, running, poll_thread, disposer, dpc>>
    /\ UNCHANGED <<memVars, stageVars>>

\* device.poll(poll_type): it returns (at the latest on its timeout) with
\* success, a timeout, or another error, which is logged.
PollerDevicePoll ==
    /\ ppc = "poll"
    /\ \E r \in {"ok", "timeout", "other"} :
        ppc' = IF r = "other" THEN "err_upgrade" ELSE "loop_test"
    /\ UNCHANGED <<poll_type, refs, poller_ref, running, poll_thread, disposer, dpc>>
    /\ UNCHANGED <<memVars, stageVars>>

\* running.store(false, Relaxed) after the loop; the thread ends.
PollerStoreFalse ==
    /\ ppc = "store_false"
    /\ running' = FALSE
    /\ ppc' = "exited"
    /\ UNCHANGED <<poll_type, refs, poller_ref, poll_thread, disposer, dpc>>
    /\ UNCHANGED <<memVars, stageVars>>

\* dispose: self.running.store(false, Release)
DisposeStore ==
    /\ dpc = "store"
    /\ running' = FALSE
    /\ dpc' = "take"
    /\ UNCHANGED <<poll_type, refs, poller_ref, poll_thread, ppc, disposer>>
    /\ UNCHANGED <<memVars, stageVars>>

\* dispose: handle.take()
DisposeTake ==
    /\ dpc = "take"
    /\ IF poll_thread
       THEN poll_thread' = FALSE /\ dpc' = "join"
       ELSE poll_thread' = poll_thread /\ dpc' = "done"
    /\ UNCHANGED <<poll_type, refs, poller_ref, running, ppc, disposer>>
    /\ UNCHANGED <<memVars, stageVars>>

\* dispose: handle.join() returns once the poll thread has ended. On the poll
\* thread itself the join is a join of the running thread: it never returns
\* (the build deadlocks or panics in it).
DisposeJoin ==
    /\ dpc = "join"
    /\ disposer = "holder"
    /\ ppc = "exited"
    /\ dpc' = "done"
    /\ UNCHANGED <<poll_type, refs, poller_ref, running, poll_thread, ppc, disposer>>
    /\ UNCHANGED <<memVars, stageVars>>

MemIdle ==
    /\ kind = "buffer" /\ usage = {} /\ mem_flags = {}
    /\ buffer_view = NoView /\ dev_map = "idle"
    /\ pc = [t \in Threads |-> "idle"]
    /\ mode = [t \in Threads |-> "Invalid"]
    /\ issued = [t \in Threads |-> "None"]
    /\ chan = [t \in Threads |-> "none"]
    /\ ret = [t \in Threads |-> "none"]
    /\ aborted = FALSE /\ released = <<>>

\* from_inner has returned: the creator holds the one strong reference, the
\* poll thread is spawned and its handle stored.
CtxInit ==
    /\ poll_type \in PollTypes
    /\ refs = 1
    /\ poller_ref = FALSE
    /\ running = FALSE
    /\ poll_thread = TRUE
    /\ ppc = "spawned"
    /\ disposer = "none"
    /\ dpc = "none"
    /\ MemIdle
    /\ StageIdle

PollerNext ==
    \/ PollerStart
    \/ PollerStoreTrue
    \/ PollerUpgrade
    \/ PollerDropRef
    \/ PollerLoopTest
    \/ PollerDevicePoll
    \/ PollerStoreFalse

DisposeNext ==
    \/ DisposeStore
    \/ DisposeTake
    \/ DisposeJoin

CtxNext ==
    \/ CloneRef
    \/ DropRef
    \/ PollerNext
    \/ DisposeNext

CtxSpec == CtxInit /\ [][CtxNext]_vars

\* Both threads keep running; nothing obliges the holders to drop their
\* references.
CtxLiveSpec == CtxSpec /\ WF_vars(PollerNext) /\ WF_vars(DisposeNext)

CtxTypeOK ==
    /\ refs \in 0..MaxHolders
    /\ poller_ref \in BOOLEAN
    /\ running \in BOOLEAN
    /\ poll_thread \in BOOLEAN
    /\ ppc \in {"spawned", "manual_upgrade", "manual_log", "store_true",
                "started_upgrade", "started_log", "store_false", "exited",
                "in_dispose"} \cup LoopPositions
    /\ disposer \in {"none", "holder", "poller"}
    /\ dpc \in {"none", "store", "take", "join", "done"}

(***************************************************************************)
(* Properties of map and unmap                                             *)
(***************************************************************************)
\* The positions of a map call between the live-view test and its return.
InMap == {"map_read", "map_write", "try_recv", "poll", "recv", "on_map"}

\* The usage mask allows mode m: Write needs MAP_WRITE; Read needs MAP_READ
\* or, by the fallback of map_read, MAP_WRITE.
Capable(m) ==
    \/ m = "Write" /\ "MAP_WRITE" \in usage
    \/ m = "Read" /\ ("MAP_READ" \in usage \/ "MAP_WRITE" \in usage)

\* Thread t's last map call got past the flag decoding and the live-view
\* test and has returned.
Completed(t) ==
    /\ pc[t] = "idle"
    /\ ret[t] \in {"ptr", "NotMapWrite", "NoResponse", "MapFailed"}

\* C1: in a sequential series of map/unmap calls at most one view is live: a
\* map call issued while a view is live returns null, issues no device map
\* request and leaves the view as it is; and no call is past the live-view
\* test while a view is live.
C1_OneLiveView ==
    /\ [](\A t \in Threads : pc[t] \in InMap => buffer_view = NoView)
    /\ [][\A t \in Threads : \A flags \in SUBSET MapFlagBits :
            (buffer_view # NoView /\ MemMap(t, flags)) =>
                /\ ret'[t] \in NullReturns
                /\ pc'[t] = "idle"
                /\ issued'[t] = "None"
                /\ chan'[t] = "none"
                /\ dev_map' = dev_map
                /\ buffer_view' = buffer_view]_vars

\* C1 witness: a map call has been refused while the view of an earlier map is
\* still live.
C1_Witness ==
    \E t \in Threads, u \in Threads :
        /\ ret[t] = "AlreadyMapped" /\ pc[t] = "idle"
        /\ buffer_view # NoView /\ buffer_view.owner = u /\ ret[u] = "ptr"

\* C2 as stated: a map call on an unmapped object yields a view if and only if
\* the usage mask allows its mode.
C2_ViewIffCapable ==
    \A t \in Threads : Completed(t) => (ret[t] = "ptr" <=> Capable(mode[t]))

\* C2 amended: a map call yields a view only if the usage mask allows its mode
\* and the device completed the request with Ok, and always when both hold;
\* the view is the read mapping when MAP_READ is present and the mode is Read,
\* the write mapping otherwise; when the mask does not allow the mode the call
\* returns null, has issued no device request and has recorded no view.
C2_CapabilityGate ==
    \A t \in Threads : Completed(t) =>
        /\ (ret[t] = "ptr" <=> (Capable(mode[t]) /\ chan[t] = "ok"))
        /\ (ret[t] = "ptr" =>
              issued[t] = (IF mode[t] = "Read" /\ "MAP_READ" \in usage
                           THEN "Read" ELSE "Write"))
        /\ (~Capable(mode[t]) =>
              /\ ret[t] = "NotMapWrite"
              /\ issued[t] = "None"
              /\ chan[t] = "none"
              /\ buffer_view.owner # t)

\* C2 witness: map(Read) on a buffer without MAP_READ but with MAP_WRITE has
\* returned the write-mapped view.
C2_Witness ==
    \E t \in Threads :
        /\ Completed(t) /\ mode[t] = "Read" /\ "MAP_READ" \notin usage
        /\ ret[t] = "ptr" /\ buffer_view = [mode |-> "Write", owner |-> t]

\* C3 as stated: two threads mapping the same unmapped object serialize or one
\* is refused: at most one map request is issued and awaiting its answer at a
\* time, and no attempt ends in a crash instead of a refusal.
C3_MapSerialized ==
    /\ Cardinality({t \in Threads : pc[t] \in {"try_recv", "poll", "recv"}}) <= 1
    /\ ~aborted

InPollLoop == {"try_recv", "poll"}

C6_ThreadedMapReturnsView ==
    \A t \in Threads :
        (poll_type # "Manual" /\ Completed(t) /\ issued[t] # "None") =>
            \/ ret[t] = "ptr"
            \/ chan[t] = "closed" /\ ret[t] \in NullReturns

\* C6 amended: in the threaded modes a map call never polls the device; it
\* blocks on the channel and, with the poll thread polling, eventually
\* returns: the view when the callback fired with Ok, null when it fired with
\* an error or was dropped without firing.
C6_ThreadedMapReturns ==
    /\ [](\A t \in Threads :
            /\ (poll_type # "Manual" => pc[t] \notin InPollLoop)
            /\ (pc[t] = "recv" => poll_type # "Manual")
            /\ (poll_type # "Manual" /\ Completed(t) /\ issued[t] # "None" =>
                   /\ (chan[t] = "ok" <=> ret[t] = "ptr")
                   /\ (chan[t] = "err" <=> ret[t] = "MapFailed")
                   /\ (chan[t] = "closed" <=> ret[t] = "NoResponse")))
    /\ \A t \in Threads :
          (pc[t] = "recv") ~>
              (pc[t] = "idle" /\ ret[t] \in {"ptr", "MapFailed", "NoResponse"})

\* C6 witness: a map call in a threaded mode has returned the view after the
\* poll thread completed the request.
C6_Witness ==
    \E t \in Threads :
        /\ poll_type = "Threaded" /\ pc[t] = "idle" /\ chan[t] = "ok"
        /\ ret[t] = "ptr" /\ buffer_view.owner = t

C8_DisposeNotOnPoller == disposer # "poller"

\* C9 as stated: for a context with a poll thread in a threaded mode, once
\* dispose has started the poll loop ends and dispose's join returns.
C9_TeardownCompletes ==
    (poll_type # "Manual" /\ disposer # "none") ~> (dpc = "done")

\* C10: a Manual context's poll thread never enters the polling loop and never
\* marks itself running; a threaded context's poll thread does not leave the
\* loop before dispose has started.
C10_PollerLoopByMode ==
    /\ poll_type = "Manual" =>
          /\ ppc \notin LoopPositions \cup {"store_true", "started_upgrade",
                                            "started_log", "store_false"}
          /\ ~running
    /\ (poll_type # "Manual" /\ ppc \in {"store_false", "exited"}) =>
          disposer # "none"
    /\ (poll_type # "Manual" /\ ppc \in LoopPositions /\ disposer = "none") =>
          running

\* C10 witness: the poll thread of a Manual context has ended while the
\* context is alive.
C10_Witness ==
    /\ poll_type = "Manual" /\ ppc = "exited" /\ disposer = "none" /\ refs >= 1

\* The join that dispose performs on a holder's thread does return.
HolderTeardownCompletes == (disposer = "holder") ~> (dpc = "done")

(***************************************************************************)
(* The transform stages (plugins-image-processing)                         *)
(***************************************************************************)
\* A faulty variant: a missing usage field reads as a default mask.
GetUsageDefaulting(caps, flags) ==
    IF ~caps.structure THEN [ok |-> FALSE, mask |-> {}]
    ELSE IF ~caps.field THEN [ok |-> TRUE, mask |-> {"MAP_WRITE", "COPY_SRC"} \cap flags]
    ELSE [ok |-> TRUE, mask |-> FromBitsTruncate(caps.bits, flags)]

\* The opening of every set_caps: structure(0) of the caps, then the usage
\* field of it, then from_bits_truncate; either lookup failing is the error
\* return.
GetUsage(caps, flags) ==
    IF ~caps.structure THEN [ok |-> FALSE, mask |-> {}]
    ELSE IF ~caps.field THEN [ok |-> FALSE, mask |-> {}]
    ELSE [ok |-> TRUE, mask |-> FromBitsTruncate(caps.bits, flags)]

\* set_caps returned an error before storing anything.
Failed == [ret |-> "Err", sink |-> sink_usages, src |-> src_usages]

\* WgpuBufferUpload::set_caps: only the output caps are read.
UploadSetCaps(incaps, outcaps) ==
    LET o == GetUsage(outcaps, BufferFlags) IN
    IF ~o.ok THEN Failed
    ELSE IF o.mask \cap {"MAP_WRITE"} = {} THEN Failed
    ELSE [ret |-> "Ok", sink |-> sink_usages, src |-> o.mask]

\* A faulty variant: the input mask is stored without the test that it can
\* be mapped.
DownloadSetCapsUntested(incaps, outcaps) ==
    LET i == GetUsage(incaps, BufferFlags) IN
    IF ~i.ok THEN Failed
    ELSE [ret |-> "Ok", sink |-> i.mask, src |-> src_usages]

\* WgpuBufferDownload::set_caps: only the input caps are read.
DownloadSetCaps(incaps, outcaps) ==
    LET i == GetUsage(incaps, BufferFlags) IN
    IF ~i.ok THEN Failed
    ELSE IF i.mask \cap {"MAP_WRITE", "MAP_READ"} = {} THEN Failed
    ELSE [ret |-> "Ok", sink |-> i.mask, src |-> src_usages]

\* WgpuTextureUpload::set_caps: the output side is read, tested and stored
\* first, then the input side.
TextureUploadSetCaps(incaps, outcaps) ==
    LET o == GetUsage(outcaps, TextureFlags)
        i == GetUsage(incaps, BufferFlags) IN
    IF ~o.ok THEN Failed
    ELSE IF o.mask \cap {"COPY_DST"} = {} THEN Failed
    ELSE IF ~i.ok THEN [ret |-> "Err", sink |-> sink_usages, src |-> o.mask]
    ELSE IF i.mask \cap {"COPY_SRC"} = {}
         THEN [ret |-> "Err", sink |-> sink_usages, src |-> o.mask]
    ELSE [ret |-> "Ok", sink |-> i.mask, src |-> o.mask]

\* WgpuTextureCopy::set_caps: as the texture upload, both sides textures.
TextureCopySetCaps(incaps, outcaps) ==
    LET o == GetUsage(outcaps, TextureFlags)
        i == GetUsage(incaps, TextureFlags) IN
    IF ~o.ok THEN Failed
    ELSE IF o.mask \cap {"COPY_DST"} = {} THEN Failed
    ELSE IF ~i.ok THEN [ret |-> "Err", sink |-> sink_usages, src |-> o.mask]
    ELSE IF i.mask \cap {"COPY_SRC"} = {}
         THEN [ret |-> "Err", sink |-> sink_usages, src |-> o.mask]
    ELSE [ret |-> "Ok", sink |-> i.mask, src |-> o.mask]

\* A faulty variant: the output mask is not tested for COPY_DST.
SobelBufSetCapsNoDstTest(incaps, outcaps) ==
    LET o == GetUsage(outcaps, BufferFlags)
        i == GetUsage(incaps, BufferFlags) IN
    IF ~o.ok THEN Failed
    ELSE IF ~i.ok THEN Failed
    ELSE IF ~({"COPY_SRC"} \subseteq i.mask) THEN Failed
    ELSE [ret |-> "Ok", sink |-> i.mask, src |-> o.mask]

\* WgpuSobelBuf::set_caps: both sides are read, then both are tested, then
\* both are stored together.
SobelBufSetCaps(incaps, outcaps) ==
    LET o == GetUsage(outcaps, BufferFlags)
        i == GetUsage(incaps, BufferFlags) IN
    IF ~o.ok THEN Failed
    ELSE IF ~i.ok THEN Failed
    ELSE IF ~({"COPY_SRC"} \subseteq i.mask) THEN Failed
    ELSE IF ~({"COPY_DST"} \subseteq o.mask) THEN Failed
    ELSE [ret |-> "Ok", sink |-> i.mask, src |-> o.mask]

\* No callback runs on an element that panicked, and none is entered while
\* the streaming thread is inside transform.
Callable == ~panicked /\ call.ret # "pending"

\* The elements that derive from gst_video::VideoFilter.
VideoStages == {"TextureUpload", "TextureCopy", "ComputeFilter"}

\* A faulty variant: the textures of a pipeline that exists are kept.
SetInfoTexturesOnce(info) ==
    IF pipeline # NoPipeline THEN pipeline
    ELSE [input_texture |-> <<info.width, info.height>>,
          output_texture |-> <<info.width, info.height>>]

\* VideoFilterImpl::set_info of the compute filters: the input texture of
\* the size of in_info, the output texture of the size of out_info, stored
\* in place of the pipeline there was.  in_info and out_info have the same
\* width and height, those the caps carry.
SetInfoTextures(info) ==
    [input_texture |-> <<info.width, info.height>>,
     output_texture |-> <<info.width, info.height>>]

\* set_caps of the stage; on success parent_set_caps runs, which for the
\* video filters stores the video info (and, through set_info, the compute
\* pipeline).  info is the width and height the caps carry.
SetCaps(incaps, outcaps, info) ==
    /\ Callable
    /\ LET r == CASE stage = "Upload" -> UploadSetCaps(incaps, outcaps)
                  [] stage = "Download" -> DownloadSetCaps(incaps, outcaps)
                  [] stage = "TextureUpload" -> TextureUploadSetCaps(incaps, outcaps)
                  [] stage = "TextureCopy" -> TextureCopySetCaps(incaps, outcaps)
                  [] stage = "ComputeFilter" -> SobelBufSetCaps(incaps, outcaps)
       IN /\ sink_usages' = r.sink
          /\ src_usages' = r.src
          /\ video_info' = (video_info \/ r.ret = "Ok")
          /\ in_info' = IF r.ret = "Ok" /\ stage \in VideoStages THEN info
                        ELSE in_info
          /\ pipeline' = IF r.ret = "Ok" /\ stage = "ComputeFilter"
                         THEN SetInfoTextures(info) ELSE pipeline
          /\ call' = [NoCall EXCEPT !.op = "set_caps", !.ret = r.ret,
                                    !.incaps = incaps, !.outcaps = outcaps]
    /\ UNCHANGED <<stage, passthrough, panicked>>
    /\ UNCHANGED <<memVars, ctxVars, poll_type, input_buffer, output_buffer, pipe, elem>>

\* A faulty variant: a buffer of any context switches pass-through on.
UploadBeforeTransformAnyContext(m) ==
    IF m.kind # "buffer"
    THEN [ret |-> "Done", pt |-> IF passthrough THEN FALSE ELSE passthrough,
          signalled |-> passthrough]
    ELSE [ret |-> "Done", pt |-> IF ~passthrough THEN TRUE ELSE passthrough,
          signalled |-> ~passthrough]

\* WgpuBufferUpload::before_transform; signalled says that set_passthrough
\* and reconfigure_src were called.
UploadBeforeTransform(m) ==
    IF m.kind # "buffer"
    THEN [ret |-> "Done", pt |-> IF passthrough THEN FALSE ELSE passthrough,
          signalled |-> passthrough]
    ELSE IF m.ctx # "own"
    THEN [ret |-> "Panicked", pt |-> passthrough, signalled |-> FALSE]
    ELSE [ret |-> "Done", pt |-> IF ~passthrough THEN TRUE ELSE passthrough,
          signalled |-> ~passthrough]

\* A faulty variant: only MAP_READ counts as host-mappable.
DownloadMappableReadOnly(u) == u \cap {"MAP_READ"} # {}

\* The test of WgpuBufferDownload::before_transform on the buffer's usage.
DownloadMappable(u) == u \cap {"MAP_READ", "MAP_WRITE"} # {}

\* A faulty variant: a mappable buffer flips the flag.
DownloadBeforeTransformFlipping(m) ==
    IF m.kind # "buffer"
    THEN [ret |-> "Done", pt |-> FALSE, signalled |-> TRUE]
    ELSE IF DownloadMappable(m.usage)
    THEN [ret |-> "Done", pt |-> ~passthrough, signalled |-> TRUE]
    ELSE [ret |-> "Done", pt |-> IF passthrough THEN FALSE ELSE passthrough,
          signalled |-> passthrough]

\* WgpuBufferDownload::before_transform.
DownloadBeforeTransform(m) ==
    IF m.kind # "buffer"
    THEN [ret |-> "Done", pt |-> FALSE, signalled |-> TRUE]
    ELSE IF DownloadMappable(m.usage)
    THEN [ret |-> "Done", pt |-> IF ~passthrough THEN TRUE ELSE passthrough,
          signalled |-> ~passthrough]
    ELSE [ret |-> "Done", pt |-> IF passthrough THEN FALSE ELSE passthrough,
          signalled |-> passthrough]

\* before_transform of the two stages that override it.
BeforeTransform(m) ==
    /\ Callable
    /\ stage \in {"Upload", "Download"}
    /\ LET r == IF stage = "Upload" THEN UploadBeforeTransform(m)
                ELSE DownloadBeforeTransform(m)
       IN /\ passthrough' = r.pt
          /\ panicked' = (r.ret = "Panicked")
          /\ call' = [NoCall EXCEPT !.op = "before_transform", !.ret = r.ret,
                                    !.inmem = m, !.was = passthrough,
                                    !.signalled = r.signalled]
    /\ UNCHANGED <<stage, sink_usages, src_usages, video_info, in_info>>
    /\ UNCHANGED <<memVars, ctxVars, poll_type, sobelVars, pipe, elem>>

NotNegotiated == [ret |-> "NotNegotiated", cmds |-> <<>>]

\* WgpuBufferMemory::fill_from_gst: maps the input memory for reading and
\* copies it into the buffer; a texture memory has no map function.
FillFromGst(inmem, outmem, o) == inmem.kind # "texture" /\ o = "ok"

\* WgpuBufferUpload::transform.
UploadTransform(inmem, outmem, o) ==
    IF outmem.kind # "buffer" THEN [ret |-> "Panicked", cmds |-> <<>>]
    ELSE IF ~FillFromGst(inmem, outmem, o) THEN [ret |-> "Error", cmds |-> <<>>]
    ELSE [ret |-> "Ok", cmds |-> <<>>]

Min(a, b) == IF a < b THEN a ELSE b

\* A faulty variant: the last byte is left out.
CopySizeShort(inmem, outmem) ==
    IF Min(inmem.size, outmem.size) > 0 THEN Min(inmem.size, outmem.size) - 1
    ELSE 0

\* A faulty variant: the whole input is copied.
CopySizeOfInput(inmem, outmem) == inmem.size

\* copy_size of WgpuBufferDownload::transform.
CopySize(inmem, outmem) == Min(inmem.size, outmem.size)

\* WgpuBufferDownload::transform up to queue().submit(): the copy is
\* submitted and the thread enters device().poll(Wait).
DownloadTransform(inmem, outmem, writable) ==
    IF inmem.kind # "buffer" THEN NotNegotiated
    ELSE IF ~("COPY_SRC" \in inmem.usage) THEN NotNegotiated
    ELSE IF ~writable THEN [ret |-> "Error", cmds |-> <<>>]
    ELSE IF outmem.kind # "buffer" THEN NotNegotiated
    ELSE IF ~("COPY_DST" \in outmem.usage) THEN NotNegotiated
    ELSE [ret |-> "pending",
          cmds |-> <<Command("copy_buffer_to_buffer", inmem, outmem,
                             CopySize(inmem, outmem))>>]

\* A faulty variant: one row of the frame.
RowExtent(info) == <<info.width, 1, 1>>

\* wgpu::Extent3d { width, height, depth_or_array_layers: 1 } of a video info.
FullExtent(info) == <<info.width, info.height, 1>>

\* WgpuTextureUpload::transform.
TextureUploadTransform(inmem, outmem) ==
    IF inmem.kind # "buffer" THEN NotNegotiated
    ELSE IF outmem.kind # "texture" THEN NotNegotiated
    ELSE IF ~video_info THEN NotNegotiated
    ELSE [ret |-> "Ok",
          cmds |-> <<ExtentCommand("copy_buffer_to_texture", inmem, outmem,
                                   FullExtent(in_info))>>]

\* WgpuTextureCopy::transform.
TextureCopyTransform(inmem, outmem) ==
    IF inmem.kind # "texture" THEN NotNegotiated
    ELSE IF outmem.kind # "texture" THEN NotNegotiated
    ELSE IF ~video_info THEN NotNegotiated
    ELSE [ret |-> "Ok",
          cmds |-> <<ExtentCommand("copy_texture_to_texture", inmem, outmem,
                                   FullExtent(in_info))>>]

\* The staging textures set_info creates for the compute filter.
InputTexture == [kind |-> "texture", ctx |-> "own",
                 usage |-> {"COPY_DST", "TEXTURE_BINDING"}, size |-> 0]
OutputTexture == [kind |-> "texture", ctx |-> "own",
                  usage |-> {"COPY_SRC", "TEXTURE_BINDING", "STORAGE_BINDING"},
                  size |-> 0]

\* The work-group size of the compute shader along x and along y.
WorkgroupSize == 8

\* A faulty variant: the quotient is rounded down.
DivFloor(a, b) == a \div b

\* u32::div_ceil.
DivCeil(a, b) == (a \div b) + (IF a % b > 0 THEN 1 ELSE 0)

\* The arguments of dispatch_workgroups in the compute filters.
Workgroups(info) ==
    <<DivCeil(info.width, WorkgroupSize), DivCeil(info.height, WorkgroupSize), 1>>

\* WgpuSobelBuf::transform: copy in, dispatch, copy out, one submit, no wait.
\* The caps keep width and height across the stage (transform_caps rewrites
\* the usage field only), so out_info has the extent of in_info.
SobelBufTransform(inmem, outmem, writable) ==
    IF inmem.kind # "buffer" THEN NotNegotiated
    ELSE IF ~("COPY_SRC" \in inmem.usage) THEN NotNegotiated
    ELSE IF ~video_info THEN NotNegotiated
    ELSE IF ~writable THEN NotNegotiated
    ELSE IF outmem.kind # "buffer" THEN NotNegotiated
    ELSE [ret |-> "Ok",
          cmds |-> <<ExtentCommand("copy_buffer_to_texture", inmem, InputTexture,
                                   FullExtent(in_info)),
                     ExtentCommand("dispatch_workgroups", InputTexture,
                                   OutputTexture, Workgroups(in_info)),
                     ExtentCommand("copy_texture_to_buffer", OutputTexture,
                                   outmem, FullExtent(in_info))>>]

\* The base class calls before_transform on a buffer and then, with
\* pass-through off, transform on the same buffer: transform sees only input
\* on which the stage's before_transform returns with pass-through off.
ReachesTransform(inmem) ==
    CASE stage = "Upload" -> /\ UploadBeforeTransform(inmem).ret = "Done"
                             /\ ~UploadBeforeTransform(inmem).pt
      [] stage = "Download" -> ~DownloadBeforeTransform(inmem).pt
      [] OTHER -> TRUE

\* transform of the stage; the base class calls it only when pass-through
\* is off.  o is what the mapping inside fill_from_gst yields.  A transform
\* that has encoded commands ends with queue().submit([command_buffer]) of
\* the one encoder and returns.
Transform(inmem, outmem, writable, o) ==
    /\ Callable
    /\ ~passthrough
    /\ ReachesTransform(inmem)
    /\ LET r == CASE stage = "Upload" -> UploadTransform(inmem, outmem, o)
                  [] stage = "Download" -> DownloadTransform(inmem, outmem, writable)
                  [] stage = "TextureUpload" -> TextureUploadTransform(inmem, outmem)
                  [] stage = "TextureCopy" -> TextureCopyTransform(inmem, outmem)
                  [] stage = "ComputeFilter" -> SobelBufTransform(inmem, outmem, writable)
       IN /\ panicked' = (r.ret = "Panicked")
          /\ call' = [NoCall EXCEPT !.op = "transform", !.ret = r.ret,
                                    !.inmem = inmem, !.outmem = outmem,
                                    !.writable = writable, !.cmds = r.cmds,
                                    !.trace = IF r.cmds # <<>> THEN <<"submit">>
                                              ELSE <<>>]
    /\ UNCHANGED <<stage, sink_usages, src_usages, video_info, in_info, passthrough>>
    /\ UNCHANGED <<memVars, ctxVars, poll_type, sobelVars, pipe, elem>>

\* A faulty variant: the result of the wait is ignored.
PollWaitResultIgnored(o) == "Ok"

\* What WgpuBufferDownload::transform returns after device().poll(Wait).
PollWaitResult(o) == IF o = "ok" THEN "Ok" ELSE "Error"

\* device().poll(Wait { submission_index }) returns inside the download's
\* transform: the device finished the submission, or the wait failed.
PollWait(o) ==
    /\ ~panicked
    /\ call.op = "transform" /\ call.ret = "pending"
    /\ call' = [call EXCEPT !.ret = PollWaitResult(o), !.complete = (o = "ok")]
    /\ UNCHANGED <<stage, sink_usages, src_usages, video_info, in_info,
                   passthrough, panicked>>
    /\ UNCHANGED <<memVars, ctxVars, poll_type, sobelVars, pipe, elem>>

\* WgpuBufferMemoryAllocator::new_with_explicit_usage on the stage's
\* context.
OwnBufferAllocator(u) == Allocator("buffer", TRUE, u, FALSE)

\* WgpuTextureMemoryAllocator::new on the stage's context, with a texture
\* descriptor of the width and height fields of the query's caps.  The base
\* class makes the allocation query with the output caps it fixed last, so
\* these are the width and height of the video info.
OwnTextureAllocator(u) ==
    [Allocator("texture", TRUE, u, FALSE) EXCEPT !.width = in_info.width,
                                                 !.height = in_info.height]

\* The allocators the loop of WgpuBufferUpload::decide_allocation leaves in
\* the query: an explicit usage without MAP_WRITE is traced, not removed.
UploadKeeps(a) == a.kind = "buffer" /\ (a.explicit \/ ~a.readonly)

\* A faulty variant: the own allocator is added behind the proposals kept.
UploadDecideAllocationAppending(q, qcaps) ==
    IF src_usages = {} THEN [ret |-> "Err", query |-> q, added |-> 0, pt |-> passthrough]
    ELSE [ret |-> "Ok",
          query |-> Append(SelectSeq(q, UploadKeeps), OwnBufferAllocator(src_usages)),
          added |-> 1, pt |-> passthrough]

\* WgpuBufferUpload::decide_allocation.
UploadDecideAllocation(q, qcaps) ==
    IF src_usages = {} THEN [ret |-> "Err", query |-> q, added |-> 0, pt |-> passthrough]
    ELSE IF Len(SelectSeq(q, UploadKeeps)) > 0
    THEN [ret |-> "Ok", query |-> SelectSeq(q, UploadKeeps), added |-> 0,
          pt |-> passthrough]
    ELSE [ret |-> "Ok", query |-> <<OwnBufferAllocator(src_usages)>>, added |-> 1,
          pt |-> passthrough]

DownloadKeeps(a) == a.kind = "buffer"

\* WgpuBufferDownload::decide_allocation.
DownloadDecideAllocation(q, qcaps) ==
    IF sink_usages = {} THEN [ret |-> "Err", query |-> q, added |-> 0, pt |-> passthrough]
    ELSE IF sink_usages \cap {"MAP_READ", "MAP_WRITE"} # {}
    THEN [ret |-> "Ok", query |-> q, added |-> 0, pt |-> TRUE]
    ELSE IF Len(SelectSeq(q, DownloadKeeps)) > 0
    THEN [ret |-> "Ok", query |-> SelectSeq(q, DownloadKeeps), added |-> 0,
          pt |-> passthrough]
    ELSE [ret |-> "Ok", query |-> <<OwnBufferAllocator({"COPY_DST", "MAP_READ"})>>,
          added |-> 1, pt |-> passthrough]

TextureKeeps(a) == a.kind = "texture" /\ "COPY_DST" \in a.usage

\* WgpuTextureUpload::decide_allocation; the caps of a video stream carry
\* width and height whenever they have a structure.
TextureUploadDecideAllocation(q, qcaps) ==
    IF src_usages = {} THEN [ret |-> "Err", query |-> q, added |-> 0, pt |-> passthrough]
    ELSE IF Len(SelectSeq(q, TextureKeeps)) > 0
    THEN [ret |-> "Ok", query |-> SelectSeq(q, TextureKeeps), added |-> 0,
          pt |-> passthrough]
    ELSE IF ~qcaps.present \/ ~qcaps.structure
    THEN [ret |-> "Err", query |-> <<>>, added |-> 0, pt |-> passthrough]
    ELSE [ret |-> "Ok", query |-> <<OwnTextureAllocator(src_usages)>>, added |-> 1,
          pt |-> passthrough]

\* WgpuTextureCopy::decide_allocation: the same code.
TextureCopyDecideAllocation(q, qcaps) == TextureUploadDecideAllocation(q, qcaps)

\* decide_allocation of the stages that override it.
DecideAllocation(q, qcaps) ==
    /\ Callable
    /\ stage \in {"Upload", "Download", "TextureUpload", "TextureCopy"}
    /\ LET r == CASE stage = "Upload" -> UploadDecideAllocation(q, qcaps)
                  [] stage = "Download" -> DownloadDecideAllocation(q, qcaps)
                  [] stage = "TextureUpload" -> TextureUploadDecideAllocation(q, qcaps)
                  [] stage = "TextureCopy" -> TextureCopyDecideAllocation(q, qcaps)
       IN /\ passthrough' = r.pt
          /\ call' = [NoCall EXCEPT !.op = "decide_allocation", !.ret = r.ret,
                                    !.incaps = qcaps, !.proposed = q,
                                    !.query = r.query, !.added = r.added,
                                    !.was = passthrough]
    /\ UNCHANGED <<stage, sink_usages, src_usages, video_info, in_info, panicked>>
    /\ UNCHANGED <<memVars, ctxVars, poll_type, sobelVars, pipe, elem>>

\* WgpuBufferUpload::propose_allocation.
UploadProposeAllocation(qcaps) ==
    IF src_usages = {} THEN [ret |-> "Err", query |-> <<>>, added |-> 0]
    ELSE [ret |-> "Ok", query |-> <<OwnBufferAllocator(src_usages)>>, added |-> 1]

\* WgpuBufferDownload::propose_allocation: the usage is read from the caps
\* of the query.
DownloadProposeAllocation(qcaps) ==
    IF ~qcaps.present THEN [ret |-> "Err", query |-> <<>>, added |-> 0]
    ELSE IF ~GetUsage(qcaps, BufferFlags).ok
    THEN [ret |-> "Err", query |-> <<>>, added |-> 0]
    ELSE [ret |-> "Ok",
          query |-> <<OwnBufferAllocator(GetUsage(qcaps, BufferFlags).mask)>>,
          added |-> 1]

\* WgpuSobelBuf::propose_allocation: the same code as the download's.
SobelBufProposeAllocation(qcaps) ==
    IF ~qcaps.present THEN [ret |-> "Err", query |-> <<>>, added |-> 0]
    ELSE IF ~GetUsage(qcaps, BufferFlags).ok
    THEN [ret |-> "Err", query |-> <<>>, added |-> 0]
    ELSE [ret |-> "Ok",
          query |-> <<OwnBufferAllocator(GetUsage(qcaps, BufferFlags).mask)>>,
          added |-> 1]

\* propose_allocation of the stages that override it.
ProposeAllocation(qcaps) ==
    /\ Callable
    /\ stage \in {"Upload", "Download", "ComputeFilter"}
    /\ LET r == CASE stage = "Upload" -> UploadProposeAllocation(qcaps)
                  [] stage = "Download" -> DownloadProposeAllocation(qcaps)
                  [] stage = "ComputeFilter" -> SobelBufProposeAllocation(qcaps)
       IN call' = [NoCall EXCEPT !.op = "propose_allocation", !.ret = r.ret,
                                 !.incaps = qcaps, !.query = r.query,
                                 !.added = r.added]
    /\ UNCHANGED <<stage, sink_usages, src_usages, video_info, in_info,
                   passthrough, panicked>>
    /\ UNCHANGED <<memVars, ctxVars, poll_type, sobelVars, pipe, elem>>

\* The caps an allocation query can carry for the stage's sink side.
QueryCaps(s) == {NoCaps} \cup SinkCaps(s) \cup SrcCaps(s)

\* A started element of any of the five kinds: context set, nothing
\* negotiated, pass-through off.
StageStarted ==
    /\ sink_usages = {} /\ src_usages = {}
    /\ video_info = FALSE /\ passthrough = FALSE /\ panicked = FALSE
    /\ in_info = NoInfo
    /\ call = NoCall
    /\ input_buffer = "none" /\ output_buffer = "none"
    /\ pipeline = NoPipeline
    /\ elem = StartedElem
    /\ pipe = NoPipe
    /\ poll_type = "Threaded"
    /\ MemIdle
    /\ CtxIdle

StageInit == stage \in Stages /\ StageStarted

\* The 64 x 64 reference frame.
ReferenceInfo == [width |-> 64, height |-> 64]

StageNext ==
    \/ \E ic \in SinkCaps(stage), oc \in SrcCaps(stage) :
        SetCaps(ic, oc, ReferenceInfo)
    \/ \E m \in Memories : BeforeTransform(m)
    \/ \E i \in Memories, o \in OutMemories :
        \E w \in (IF stage \in {"Download", "ComputeFilter"} THEN BOOLEAN ELSE {TRUE}) :
        \E r \in (IF stage = "Upload" THEN {"ok", "fail"} ELSE {"ok"}) :
            Transform(i, o, w, r)
    \/ \E o \in {"ok", "fail"} : PollWait(o)
    \/ \E q \in Queries, qc \in QueryCaps(stage) : DecideAllocation(q, qc)
    \/ \E qc \in QueryCaps(stage) : ProposeAllocation(qc)

StageSpec == StageInit /\ [][StageNext]_vars

StageTypeOK ==
    /\ stage \in Stages
    /\ sink_usages \subseteq (BufferFlags \cup TextureFlags)
    /\ src_usages \subseteq (BufferFlags \cup TextureFlags)
    /\ video_info \in BOOLEAN /\ passthrough \in BOOLEAN /\ panicked \in BOOLEAN
    /\ in_info \in Infos \cup {NoInfo}
    /\ call.op \in {"none", "set_caps", "before_transform", "transform",
                    "decide_allocation", "propose_allocation"}
    /\ call.ret \in {"none", "Ok", "Err", "Done", "Panicked", "NotNegotiated",
                     "Error", "pending"}
    /\ Len(call.cmds) \in 0..3
    /\ call.added \in 0..1

(***************************************************************************)
(* Properties of the transform stages                                      *)
(***************************************************************************)
\* A GPU memory bound to a context that is not the stage's.
Foreign(m) == m.kind \in {"buffer", "texture"} /\ m.ctx = "other"

\* C11: no stage treats memory of another Device Context as interchangeable:
\* a stage handed GPU memory whose context is not its own neither switches
\* pass-through on for it, nor submits device commands on it, nor returns
\* success from transform.
C11_ForeignContextFatal ==
    Foreign(call.inmem) =>
        /\ (call.op = "before_transform" /\ call.ret = "Done" => ~passthrough)
        /\ (call.op = "transform" => call.cmds = <<>> /\ call.ret # "Ok")

\* C12: whenever before_transform of the upload stage has returned, its
\* pass-through is on exactly when the buffer's first memory is a WGPU buffer
\* memory bound to the stage's own context, whatever the mode was before.
C12_UploadPassthroughIffOwnBuffer ==
    (stage = "Upload" /\ call.op = "before_transform" /\ call.ret = "Done") =>
        (passthrough <=> (call.inmem.kind = "buffer" /\ call.inmem.ctx = "own"))

\* The upload stage was in pass-through and a system memory switched it off.
C12_Witness ==
    /\ stage = "Upload" /\ call.op = "before_transform" /\ call.ret = "Done"
    /\ call.was /\ ~passthrough /\ call.inmem.kind = "system"

\* C13 as stated: after before_transform of the download stage, pass-through
\* is on exactly when the first memory is a WGPU buffer whose usage includes
\* MAP_READ.
C13_DownloadPassthroughIffMapRead ==
    (stage = "Download" /\ call.op = "before_transform") =>
        (passthrough <=> (call.inmem.kind = "buffer" /\ "MAP_READ" \in call.inmem.usage))

\* C13, amended: after before_transform of the download stage, pass-through
\* is on exactly when the first memory is a WGPU buffer whose usage includes
\* MAP_READ or MAP_WRITE, whatever the mode was before.
C13_DownloadPassthroughIffMappable ==
    (stage = "Download" /\ call.op = "before_transform") =>
        (passthrough <=> (/\ call.inmem.kind = "buffer"
                          /\ (\/ "MAP_READ" \in call.inmem.usage
                              \/ "MAP_WRITE" \in call.inmem.usage)))

\* The download stage, pass-through off, switched it on for a buffer that
\* can be mapped for writing only.
C13_Witness ==
    /\ stage = "Download" /\ call.op = "before_transform"
    /\ ~call.was /\ passthrough
    /\ call.inmem.kind = "buffer" /\ call.inmem.usage = {"MAP_WRITE", "COPY_SRC"}

\* The kinds of memory each stage's transform downcasts its input and its
\* output to; the upload reads its input through a generic map.
HandledInput(s) ==
    CASE s = "Upload" -> {"system", "buffer", "texture"}
      [] s = "Download" -> {"buffer"}
      [] s = "TextureUpload" -> {"buffer"}
      [] s = "TextureCopy" -> {"texture"}
      [] s = "ComputeFilter" -> {"buffer"}
HandledOutput(s) ==
    CASE s = "Upload" -> {"buffer"}
      [] s = "Download" -> {"buffer"}
      [] s = "TextureUpload" -> {"texture"}
      [] s = "TextureCopy" -> {"texture"}
      [] s = "ComputeFilter" -> {"buffer"}

\* C14: in every stage, transform on an input or output memory of a kind its
\* path cannot handle returns NotNegotiated, submits no device command and
\* does not panic.
C14_WrongKindNotNegotiated ==
    (/\ call.op = "transform" /\ call.writable
     /\ (\/ call.inmem.kind \notin HandledInput(stage)
         \/ call.outmem.kind \notin HandledOutput(stage))) =>
        (call.ret = "NotNegotiated" /\ call.cmds = <<>> /\ ~panicked)

\* C15: in every stage, decide_allocation, propose_allocation and transform
\* called before any set_caps has succeeded fail with an error, add no
\* allocator to the query and submit no device command.
C15_BeforeFixCapsFails ==
    (/\ ~video_info
     /\ call.op \in {"decide_allocation", "propose_allocation", "transform"}) =>
        /\ call.ret \in {"Err", "NotNegotiated", "Error"}
        /\ call.added = 0
        /\ call.cmds = <<>>

\* A caps descriptor without a structure or without a usage field.
Malformed(c) == ~c.structure \/ ~c.field

\* The last set_caps got a malformed descriptor on a side of the stage that
\* carries GPU memory (the upload's sink and the download's source carry
\* host memory).
MalformedGpuSide(c) ==
    /\ c.op = "set_caps"
    /\ \/ (stage # "Upload" /\ Malformed(c.incaps))
       \/ (stage # "Download" /\ Malformed(c.outcaps))

\* C16: a set_caps whose GPU-side descriptor has no structure or no usage
\* field returns an error and puts no default in place of the missing mask:
\* each recorded mask stays what it was, or (texture stages, output side
\* read first) is the mask of the well-formed output descriptor.
C16_MalformedFails ==
    [][MalformedGpuSide(call') =>
        /\ call'.ret = "Err"
        /\ sink_usages' = sink_usages
        /\ \/ src_usages' = src_usages
           \/ /\ stage \in {"TextureUpload", "TextureCopy"}
              /\ ~Malformed(call'.outcaps)
              /\ src_usages' = call'.outcaps.bits \cap TextureFlags]_vars

\* The compute filter, negotiated before, is given input caps without a
\* usage field.
C16_Witness ==
    /\ stage = "ComputeFilter" /\ call.op = "set_caps" /\ call.ret = "Err"
    /\ call.incaps = NoField /\ ~Malformed(call.outcaps)
    /\ video_info /\ sink_usages # {} /\ src_usages # {}

\* The last call was set_caps on one of the three copying stages.
CopyStageSetCaps ==
    stage \in {"ComputeFilter", "TextureUpload", "TextureCopy"} /\ call.op = "set_caps"

\* set_caps succeeded exactly when the input mask has COPY_SRC and the
\* output mask has COPY_DST.
SucceedsIffCopyBits ==
    call.ret = "Ok" <=>
        /\ ~Malformed(call.incaps) /\ "COPY_SRC" \in call.incaps.bits
        /\ ~Malformed(call.outcaps) /\ "COPY_DST" \in call.outcaps.bits

C18_CopyUsagesChecked ==
    \A k \in 1..Len(call.cmds) :
        call.cmds[k].kind # "dispatch_workgroups" =>
            /\ "COPY_SRC" \in call.cmds[k].src.usage
            /\ "COPY_DST" \in call.cmds[k].dst.usage

\* C19: the buffer-to-buffer copy of the download stage copies exactly
\* min(input size, output size) bytes, from offset 0 of the input buffer to
\* offset 0 of the output buffer.
C19_CopiesMinAtZero ==
    \A k \in 1..Len(call.cmds) :
        call.cmds[k].kind = "copy_buffer_to_buffer" =>
            /\ call.cmds[k].size \in {call.inmem.size, call.outmem.size}
            /\ call.cmds[k].size <= call.inmem.size
            /\ call.cmds[k].size <= call.outmem.size
            /\ call.cmds[k].src = call.inmem /\ call.cmds[k].src_offset = 0
            /\ call.cmds[k].dst = call.outmem /\ call.cmds[k].dst_offset = 0

\* A copy from a larger input buffer into a smaller output buffer was
\* submitted.
C19_Witness ==
    /\ stage = "Download" /\ call.op = "transform" /\ Len(call.cmds) = 1
    /\ call.cmds[1].kind = "copy_buffer_to_buffer"
    /\ call.inmem.size > call.outmem.size
    /\ call.cmds[1].size = call.outmem.size

\* C20: the download stage's transform returns success only after the
\* device has reported the submitted copy complete; from the submit until
\* then the calling thread is inside the call, and a wait that fails makes
\* the call return a flow error.
C20_OkOnlyAfterComplete ==
    (stage = "Download" /\ call.op = "transform") =>
        /\ (call.ret = "Ok" => call.complete /\ Len(call.cmds) = 1)
        /\ (call.cmds # <<>> /\ ~call.complete => call.ret \in {"pending", "Error"})

\* The copy was submitted, the device reported it complete, and transform
\* returned success.
C20_Witness ==
    /\ stage = "Download" /\ call.op = "transform" /\ call.ret = "Ok"
    /\ Len(call.cmds) = 1 /\ call.complete

(***************************************************************************)
(* wgpusobelmem: the compute filter with its own staging buffers           *)
(***************************************************************************)
\* Mapping states of a staging buffer: not created, mapped, unmapped, or
\* unmapped with a map_async request the device has not answered.
MapStates == {"none", "mapped", "unmapped", "requested"}

\* VideoFilterImpl::set_info of WgpuSobelMem: builds the pipeline; the input
\* buffer is created mapped (mapped_at_creation), the output buffer unmapped.
\* The video filter stores the video info when set_info returns Ok.
SobelMemSetInfo(info) ==
    /\ Callable
    /\ stage = "SobelMem"
    /\ video_info' = TRUE
    /\ in_info' = info
    /\ input_buffer' = "mapped"
    /\ output_buffer' = "unmapped"
    /\ pipeline' = SetInfoTextures(info)
    /\ call' = [NoCall EXCEPT !.op = "set_info", !.ret = "Ok"]
    /\ UNCHANGED <<stage, sink_usages, src_usages, passthrough, panicked>>
    /\ UNCHANGED <<memVars, ctxVars, poll_type, pipe, elem>>

\* WebGPUState.input_buffer and output_buffer, of the size of one RGBx frame.
StagingInput ==
    [kind |-> "buffer", ctx |-> "own", usage |-> {"MAP_WRITE", "COPY_SRC"},
     size |-> in_info.width * in_info.height * 4]
StagingOutput ==
    [kind |-> "buffer", ctx |-> "own", usage |-> {"MAP_READ", "COPY_DST"},
     size |-> in_info.width * in_info.height * 4]

\* A faulty variant: the dispatch is recorded before the copy of the input.
SobelMemCommandsDispatchFirst(inbuffer) ==
    <<ExtentCommand("dispatch_workgroups", InputTexture, OutputTexture,
                    Workgroups(in_info)),
      ExtentCommand("copy_buffer_to_texture", inbuffer, InputTexture,
                    FullExtent(in_info)),
      ExtentCommand("copy_texture_to_buffer", OutputTexture, StagingOutput,
                    FullExtent(in_info))>>

\* The commands transform_with_gpu encodes and submits.
SobelMemCommands(inbuffer) ==
    <<ExtentCommand("copy_buffer_to_texture", inbuffer, InputTexture,
                    FullExtent(in_info)),
      ExtentCommand("dispatch_workgroups", InputTexture, OutputTexture,
                    Workgroups(in_info)),
      ExtentCommand("copy_texture_to_buffer", OutputTexture, StagingOutput,
                    FullExtent(in_info))>>

\* The calls of transform_with_gpu on the queue, the device and the staging
\* buffers from the submission to the end of the wait.
WaitSteps(map_input) ==
    <<"submit", "map_async_output">>
    \o (IF map_input THEN <<"map_async_input">> ELSE <<>>)
    \o <<"poll_wait">>

\* WgpuSobelMem::transform_with_gpu once the pipeline, the context and the
\* video infos are there: submit, map_async on the output buffer (wgpu
\* panics on a buffer that is mapped or has a request pending), map_async on
\* the input buffer if map_input, device().poll(Wait) with a timeout.  When
\* the wait fails the function returns Error with both requests standing;
\* otherwise both are answered, the output is read and unmapped.  inp is the
\* mapping state of the staging input buffer on entry.
TransformWithGpu(inbuffer, inp, map_input, o) ==
    IF output_buffer # "unmapped"
    THEN [ret |-> "Panicked", cmds |-> SobelMemCommands(inbuffer),
          inp |-> inp, out |-> output_buffer, steps |-> <<"submit">>]
    ELSE IF o # "ok"
    THEN [ret |-> "Error", cmds |-> SobelMemCommands(inbuffer),
          inp |-> IF map_input THEN "requested" ELSE inp,
          out |-> "requested", steps |-> WaitSteps(map_input)]
    ELSE [ret |-> "Ok", cmds |-> SobelMemCommands(inbuffer),
          inp |-> IF map_input THEN "mapped" ELSE inp, out |-> "unmapped",
          steps |-> WaitSteps(map_input) \o <<"read_output", "unmap_output">>]

\* WgpuSobelMem::transform_frame: the frame is written into the mapped input
\* buffer (get_mapped_range_mut panics on a buffer that is not mapped), the
\* buffer is unmapped and handed to transform_with_gpu with map_input.
SobelMemTransformFrame(inmem, o) ==
    IF ~video_info
    THEN [ret |-> "NotNegotiated", cmds |-> <<>>, inp |-> input_buffer,
          out |-> output_buffer, steps |-> <<>>]
    ELSE IF input_buffer # "mapped"
    THEN [ret |-> "Panicked", cmds |-> <<>>, inp |-> input_buffer,
          out |-> output_buffer, steps |-> <<>>]
    ELSE TransformWithGpu(StagingInput, "unmapped", TRUE, o)

\* WgpuSobelMem::transform: a WGPU buffer memory is used in place, anything
\* else goes through parent_transform to transform_frame.
SobelMemTransform(inmem, writable, o) ==
    /\ Callable
    /\ stage = "SobelMem"
    /\ LET r == IF ~video_info
                THEN [ret |-> "NotNegotiated", cmds |-> <<>>,
                      inp |-> input_buffer, out |-> output_buffer,
                      steps |-> <<>>]
                ELSE IF inmem.kind = "buffer"
                THEN IF ~writable
                     THEN [ret |-> "NotNegotiated", cmds |-> <<>>,
                           inp |-> input_buffer, out |-> output_buffer,
                           steps |-> <<>>]
                     ELSE TransformWithGpu(inmem, input_buffer, FALSE, o)
                ELSE SobelMemTransformFrame(inmem, o)
       IN /\ panicked' = (r.ret = "Panicked")
          /\ input_buffer' = r.inp
          /\ output_buffer' = r.out
          /\ call' = [NoCall EXCEPT !.op = "transform", !.ret = r.ret,
                                    !.inmem = inmem, !.writable = writable,
                                    !.cmds = r.cmds, !.trace = r.steps,
                                    !.complete = (r.ret = "Ok")]
    /\ UNCHANGED <<stage, sink_usages, src_usages, video_info, in_info,
                   passthrough>>
    /\ UNCHANGED <<memVars, ctxVars, poll_type, pipeline, pipe, elem>>

\* The context's poll thread polls the device: a standing map_async request
\* is answered and the buffer becomes mapped.
SobelMemPolled ==
    /\ stage = "SobelMem"
    /\ "requested" \in {input_buffer, output_buffer}
    /\ input_buffer' = IF input_buffer = "requested" THEN "mapped"
                       ELSE input_buffer
    /\ output_buffer' = IF output_buffer = "requested" THEN "mapped"
                        ELSE output_buffer
    /\ UNCHANGED <<stage, sink_usages, src_usages, video_info, in_info,
                   passthrough, panicked, call>>
    /\ UNCHANGED <<memVars, ctxVars, poll_type, pipeline, pipe, elem>>

(***************************************************************************)
(* The video filters over every frame size                                 *)
(***************************************************************************)
\* The caps a video filter is fixed with in the runs over every frame size:
\* a well-formed pair the stage accepts, and a pair without structure.
VideoCapsPairs(s) ==
    IF s \notin VideoStages THEN {} ELSE
    {<<NoStructure, NoStructure>>,
     <<UsageCaps({"COPY_SRC"} \cap (IF s = "TextureCopy" THEN TextureFlags
                                    ELSE BufferFlags)),
       UsageCaps({"COPY_DST"})>>}

\* The buffers handed to a video filter in those runs: of each kind, of the
\* stage's context, with the copy bit of their side.
VideoInputs == {m \in OutMemories : m.size \in {0, MaxSize}
                                     /\ (m.kind = "system" \/ "COPY_SRC" \in m.usage)}
VideoOutputs == {m \in OutMemories : m.size \in {0, MaxSize}
                                      /\ (m.kind = "system" \/ "COPY_DST" \in m.usage)}

\* The elements that derive from gst_video::VideoFilter, wgpusobelmem
\* included.
VideoFilters == VideoStages \cup {"SobelMem"}

VideoInit == stage \in VideoFilters /\ StageStarted

VideoNext ==
    \/ \E c \in VideoCapsPairs(stage), d \in Infos : SetCaps(c[1], c[2], d)
    \/ \E i \in (IF stage \in VideoStages THEN VideoInputs ELSE {}) :
        \E o \in VideoOutputs :
        \E w \in (IF stage = "ComputeFilter" THEN BOOLEAN ELSE {TRUE}) :
            Transform(i, o, w, "ok")
    \/ \E q \in Queries, qc \in {NoCaps, NoField} : DecideAllocation(q, qc)
    \/ \E qc \in {NoCaps, UsageCaps({"COPY_SRC"})} : ProposeAllocation(qc)
    \/ \E d \in Infos : SobelMemSetInfo(d)
    \/ \E i \in VideoInputs, w \in BOOLEAN, o \in {"ok", "timeout"} :
        SobelMemTransform(i, w, o)
    \/ SobelMemPolled

VideoSpec == VideoInit /\ [][VideoNext]_vars

\* The dispatch commands among the commands of the last call.
Dispatches == SelectSeq(call.cmds, LAMBDA c : c.kind = "dispatch_workgroups")

\* n is the quotient of a by b rounded up: the least n with n * b >= a.
IsCeil(n, a, b) == n * b >= a /\ (n - 1) * b < a

\* C21: a transform of a compute filter that succeeds dispatches once; one
\* that fails before recording dispatches nothing; every dispatch is of
\* ceil(width / 8) x ceil(height / 8) x 1 work-groups of the fixed input
\* width and height, 8 x 8 x 1 for the 64 x 64 frame.
C21_DispatchCeil ==
    (stage \in {"ComputeFilter", "SobelMem"} /\ call.op = "transform") =>
        /\ call.ret = "Ok" => Len(Dispatches) = 1
        /\ call.ret = "NotNegotiated" => Len(Dispatches) = 0
        /\ Len(Dispatches) <= 1
        /\ \A k \in 1..Len(Dispatches) :
            /\ IsCeil(Dispatches[k].extent[1], in_info.width, 8)
            /\ IsCeil(Dispatches[k].extent[2], in_info.height, 8)
            /\ Dispatches[k].extent[3] = 1
            /\ (in_info = ReferenceInfo => Dispatches[k].extent = <<8, 8, 1>>)

\* A frame whose width is no multiple of 8 and whose height is was dispatched.
C21_Witness ==
    /\ stage = "ComputeFilter" /\ call.op = "transform" /\ call.ret = "Ok"
    /\ in_info.width % 8 # 0 /\ in_info.width > 8 /\ in_info.height % 8 = 0
    /\ Len(Dispatches) = 1

C23_TextureStagesAlwaysCopy ==
    stage \in {"TextureUpload", "TextureCopy"} =>
        /\ ~passthrough
        /\ (call.op = "transform" /\ call.ret = "Ok") =>
            /\ in_info \in Infos
            /\ Len(call.cmds) = 1
            /\ call.cmds[1].kind = (IF stage = "TextureUpload"
                                    THEN "copy_buffer_to_texture"
                                    ELSE "copy_texture_to_texture")
            /\ call.cmds[1].src = call.inmem /\ call.cmds[1].dst = call.outmem
            /\ call.cmds[1].extent = <<in_info.width, in_info.height, 1>>

\* A texture stage has copied a frame that is higher than one row.
C23_Witness ==
    /\ stage \in {"TextureUpload", "TextureCopy"}
    /\ call.op = "transform" /\ call.ret = "Ok"
    /\ in_info.height > 1 /\ in_info.width # in_info.height
    /\ Len(call.cmds) = 1

(***************************************************************************)
(* Properties of the buffer allocator                                      *)
(***************************************************************************)
\* C24: an object of the allocator without explicit usage has the mask its
\* request's flags determine, {MAP_READ, COPY_DST} for a read-only request
\* and {MAP_WRITE, COPY_SRC} for any other, and no call on the object
\* changes the mask.
C24_MaskFromRequestFlags ==
    /\ [](usage = IF "READONLY" \in mem_flags THEN {"MAP_READ", "COPY_DST"}
                  ELSE {"MAP_WRITE", "COPY_SRC"})
    /\ [][usage' = usage /\ mem_flags' = mem_flags]_vars

\* An object of a read-only request has been mapped.
C24_Witness ==
    /\ buffer_view # NoView
    /\ "READONLY" \in mem_flags
    /\ usage = {"MAP_READ", "COPY_DST"}

(***************************************************************************)
(* One buffer through wgpubufferupload, wgpubufferdownload as the buffer   *)
(* copy, and wgpubufferdownload                                            *)
(***************************************************************************)
\* Largest number of bytes of host data pushed through the three elements.
MaxLen == 3
Bytes == {1, 2}
HostData == UNION {[1..n -> Bytes] : n \in 0..MaxLen}

\* A buffer of host memory holding d, at the sink pad of the upload.
AtSource(d) ==
    [pos |-> "source", input |-> d,
     mem |-> [kind |-> "system", ctx |-> "none", usage |-> {}, size |-> Len(d)],
     data |-> d, copies |-> 0, output |-> <<>>]

\* A fresh WGPU buffer memory of n bytes the stage's allocator hands out.
FreshBuffer(u, n) == [kind |-> "buffer", ctx |-> "own", usage |-> u, size |-> n]
Zeros(n) == [i \in 1..n |-> 0]

\* What the device leaves in the destination of a copy_buffer_to_buffer.
ExecuteCopy(c, src, dst) ==
    [i \in 1..Len(dst) |->
        IF c.dst_offset < i /\ i <= c.dst_offset + c.size
        THEN src[i - c.dst_offset + c.src_offset]
        ELSE dst[i]]

\* The bytes fill_from_gst leaves in the buffer: those of the input memory.
FillData(d) == d

\* The usage masks the output memory of the upload can have: of the stage's
\* own allocator (the fixed output mask, which has MAP_WRITE) or of an
\* allocator of the peer that decide_allocation kept.
UploadOutUsages == {{"MAP_WRITE"}, {"MAP_WRITE", "COPY_SRC"}, {"COPY_SRC"}}

PipeOnly ==
    UNCHANGED <<memVars, ctxVars, poll_type, sobelVars, stage, sink_usages,
                src_usages, video_info, in_info, passthrough, panicked, call,
                elem>>

\* The upload handles the buffer: before_transform, then transform into an
\* output memory of the input's size.
PipeUpload(u, o) ==
    /\ pipe.pos = "source"
    /\ LET outmem == FreshBuffer(u, pipe.mem.size)
           b == UploadBeforeTransform(pipe.mem)
           r == UploadTransform(pipe.mem, outmem, o)
       IN pipe' = IF b.ret = "Done" /\ ~b.pt /\ r.ret = "Ok"
                  THEN [pipe EXCEPT !.pos = "uploaded", !.mem = outmem,
                                    !.data = FillData(pipe.data)]
                  ELSE [pipe EXCEPT !.pos = "failed"]
    /\ PipeOnly

\* wgpubufferdownload handles the buffer at position p: before_transform
\* and, with pass-through off, transform into a buffer of its own allocator
\* and the wait for the device.
DownloadHandles(p, q, o) ==
    /\ pipe.pos = p
    /\ LET outmem == FreshBuffer({"COPY_DST", "MAP_READ"}, pipe.mem.size)
           b == DownloadBeforeTransform(pipe.mem)
           r == DownloadTransform(pipe.mem, outmem, TRUE)
       IN pipe' = IF b.pt THEN [pipe EXCEPT !.pos = q]
                  ELSE IF r.ret = "pending" /\ PollWaitResult(o) = "Ok"
                  THEN [pipe EXCEPT !.pos = q, !.mem = outmem,
                                    !.data = ExecuteCopy(r.cmds[1], pipe.data,
                                                         Zeros(outmem.size)),
                                    !.copies = pipe.copies + 1]
                  ELSE [pipe EXCEPT !.pos = "failed"]
    /\ PipeOnly

PipeCopy(o) == DownloadHandles("uploaded", "copied", o)
PipeDownload(o) == DownloadHandles("copied", "downloaded", o)

\* The sink maps the memory for reading: map_read, which falls back to
\* map_write on a buffer without MAP_READ, which fails without MAP_WRITE.
PipeRead ==
    /\ pipe.pos = "downloaded"
    /\ pipe' = IF "MAP_READ" \in pipe.mem.usage \/ "MAP_WRITE" \in pipe.mem.usage
               THEN [pipe EXCEPT !.pos = "done", !.output = pipe.data]
               ELSE [pipe EXCEPT !.pos = "failed"]
    /\ PipeOnly

RoundTripInit ==
    /\ ElementIdle
    /\ pipe \in {AtSource(d) : d \in HostData}
    /\ poll_type = "Threaded"
    /\ MemIdle
    /\ CtxIdle

RoundTripNext ==
    \/ \E u \in UploadOutUsages, o \in {"ok", "fail"} : PipeUpload(u, o)
    \/ \E o \in {"ok", "fail"} : PipeCopy(o)
    \/ \E o \in {"ok", "fail"} : PipeDownload(o)
    \/ PipeRead

RoundTripSpec == RoundTripInit /\ [][RoundTripNext]_vars

C26_PassthroughIdempotent ==
    [][(/\ stage \in {"Upload", "Download"}
        /\ passthrough
        /\ call.op = "before_transform"
        /\ call'.op = "before_transform"
        /\ call'.inmem.kind = call.inmem.kind
        /\ call'.inmem.usage = call.inmem.usage)
       => passthrough']_vars

\* A before_transform on a WGPU buffer found the stage in pass-through and
\* left it there.
C26_Witness ==
    /\ stage \in {"Upload", "Download"}
    /\ call.op = "before_transform" /\ call.ret = "Done"
    /\ call.was /\ passthrough
    /\ call.inmem.kind = "buffer"

(***************************************************************************)
(* transform_caps of the stages                                            *)
(***************************************************************************)
\* A usage field of a caps structure: absent, or present with its bits.
Absent == [present |-> FALSE, bits |-> {}]
Usage(b) == [present |-> TRUE, bits |-> b]

\* A caps structure with its features: the fields that are no usage field
\* (here the format), the memory feature, and the two usage fields
\* GST_CAPS_FIELD_WGPU_BUFFER_USAGE and GST_CAPS_FIELD_WGPU_TEXTURE_USAGE.
Formats == {"RGBA", "RGBx"}
Descriptors(k) ==
    CASE k = "system" ->
            {[format |-> f, feature |-> "system", buffer_usage |-> Absent,
              texture_usage |-> Absent] : f \in Formats}
      [] k = "buffer" ->
            {[format |-> f, feature |-> "buffer", buffer_usage |-> u,
              texture_usage |-> Absent] :
                f \in Formats,
                u \in {Absent, Usage({"MAP_WRITE"}), Usage({"COPY_DST", "MAP_READ"})}}
      [] k = "texture" ->
            {[format |-> f, feature |-> "texture", buffer_usage |-> Absent,
              texture_usage |-> u] :
                f \in Formats,
                u \in {Absent, Usage({"COPY_SRC"}),
                       Usage({"COPY_DST", "TEXTURE_BINDING"})}}

\* Largest number of structures in the caps handed to transform_caps.
MaxCaps == 2
CapsOf(k) == UNION {[1..n -> Descriptors(k)] : n \in 1..MaxCaps}

\* The memory kind of the caps on each pad of each stage.
PadKind(s, pad) ==
    CASE s = "Upload" -> IF pad = "Sink" THEN "system" ELSE "buffer"
      [] s = "Download" -> IF pad = "Sink" THEN "buffer" ELSE "system"
      [] s = "TextureUpload" -> IF pad = "Sink" THEN "buffer" ELSE "texture"
      [] s = "TextureCopy" -> "texture"
      [] s = "ComputeFilter" -> "buffer"

\* sink_allowed_usages and src_allowed_usages of the stages, in their order.
AllowedUsages(s, pad) ==
    CASE s = "Upload" -> <<{"MAP_WRITE"}, {"MAP_WRITE", "COPY_SRC"}>>
      [] s = "Download" -> <<{"MAP_WRITE"}, {"MAP_READ"}, {"MAP_WRITE", "COPY_SRC"},
                             {"MAP_READ", "COPY_DST"}>>
      [] s = "TextureUpload" /\ pad = "Sink" ->
            <<{"COPY_SRC"}, {"COPY_SRC", "MAP_WRITE"}>>
      [] s = "TextureUpload" /\ pad = "Src" ->
            <<{"COPY_DST"}, {"COPY_DST", "COPY_SRC"}, {"COPY_DST", "TEXTURE_BINDING"},
              {"COPY_DST", "STORAGE_BINDING"},
              {"COPY_DST", "STORAGE_BINDING", "TEXTURE_BINDING"}>>
      [] s = "TextureCopy" /\ pad = "Sink" ->
            <<{"COPY_SRC"}, {"COPY_SRC", "COPY_DST"}>>
      [] s = "TextureCopy" /\ pad = "Src" ->
            <<{"COPY_DST"}, {"COPY_DST", "COPY_SRC"}>>
      [] s = "ComputeFilter" /\ pad = "Sink" ->
            <<{"COPY_SRC"}, {"COPY_SRC", "MAP_WRITE"}>>
      [] s = "ComputeFilter" /\ pad = "Src" ->
            <<{"COPY_DST"}, {"COPY_DST", "MAP_READ"}>>

\* for s in caps.iter() { for usage in usages { f(s, usage) } }: every
\* structure once per usage, in order.
ForEachUsage(caps, usages, f(_, _)) ==
    [i \in 1..(Len(caps) * Len(usages)) |->
        f(caps[((i - 1) \div Len(usages)) + 1], usages[((i - 1) % Len(usages)) + 1])]

\* A faulty variant: the structures keep their usage field.
KeepBufferUsage(caps) ==
    [i \in 1..Len(caps) |-> [caps[i] EXCEPT !.feature = "system"]]

\* The loop of the upload and of the download that strips the usage field:
\* builder.structure(new_s), a structure without memory feature.
StripBufferUsage(caps) ==
    [i \in 1..Len(caps) |->
        [caps[i] EXCEPT !.buffer_usage = Absent, !.feature = "system"]]

\* The loop of the upload, of the download and of
\* make_wgpu_buffer_usages_for_caps: the buffer usage field is set.
SetBufferUsage(s, u) == [s EXCEPT !.buffer_usage = Usage(u), !.feature = "buffer"]

\* caps::transform::gst_caps_with_buffer_usages.
WithBufferUsages(s, u) ==
    [s EXCEPT !.texture_usage = Absent, !.buffer_usage = Usage(u),
              !.feature = "buffer"]

\* A faulty variant: the buffer usage field is left in the structure.
WithTextureUsagesKeepingField(s, u) ==
    [s EXCEPT !.texture_usage = Usage(u), !.feature = "texture"]

\* caps::transform::gst_caps_with_texture_usages.
WithTextureUsages(s, u) ==
    [s EXCEPT !.buffer_usage = Absent, !.texture_usage = Usage(u),
              !.feature = "texture"]

Opposite(pad) == IF pad = "Sink" THEN "Src" ELSE "Sink"

\* A faulty variant: every stage rewrites with the masks allowed on the pad
\* the caps came from.
TransformCapsOfSameSide(s, direction, caps) ==
    IF PadKind(s, Opposite(direction)) = "texture"
    THEN ForEachUsage(caps, AllowedUsages(s, direction), WithTextureUsages)
    ELSE ForEachUsage(caps, AllowedUsages(s, direction), WithBufferUsages)

\* other_caps of transform_caps of each stage: direction is the pad the
\* caps are on, the result is for the opposite pad.
TransformCapsOf(s, direction, caps) ==
    CASE s = "Upload" ->
            IF direction = "Src" THEN StripBufferUsage(caps)
            ELSE ForEachUsage(caps, AllowedUsages(s, "Src"), SetBufferUsage)
      [] s = "Download" ->
            IF direction = "Sink" THEN StripBufferUsage(caps)
            ELSE ForEachUsage(caps, AllowedUsages(s, "Sink"), SetBufferUsage)
      [] s = "TextureUpload" ->
            IF direction = "Src"
            THEN ForEachUsage(caps, AllowedUsages(s, "Sink"), WithBufferUsages)
            ELSE ForEachUsage(caps, AllowedUsages(s, "Src"), WithTextureUsages)
      [] s = "TextureCopy" ->
            ForEachUsage(caps, AllowedUsages(s, Opposite(direction)), WithTextureUsages)
      [] s = "ComputeFilter" ->
            ForEachUsage(caps, AllowedUsages(s, Opposite(direction)), SetBufferUsage)

\* The optional filter of transform_caps.
NoFilter == [given |-> FALSE, caps |-> <<>>]
Filter(caps) == [given |-> TRUE, caps |-> caps]
Filters(k) == {NoFilter} \cup {Filter(<<d>>) : d \in Descriptors(k)}

\* Two usage fields of the same name intersect when one is absent or both
\* hold the same bits.
FieldsMeet(a, b) == a.present /\ b.present => a.bits = b.bits
FieldMet(a, b) == IF a.present THEN a ELSE b

\* gst_structure_intersect under equal features: NoIntersection when a field
\* of both differs.
NoIntersection == [format |-> "none", feature |-> "none", buffer_usage |-> Absent,
                texture_usage |-> Absent]
StructureIntersect(a, b) ==
    IF /\ a.feature = b.feature /\ a.format = b.format
       /\ FieldsMeet(a.buffer_usage, b.buffer_usage)
       /\ FieldsMeet(a.texture_usage, b.texture_usage)
    THEN [a EXCEPT !.buffer_usage = FieldMet(a.buffer_usage, b.buffer_usage),
                   !.texture_usage = FieldMet(a.texture_usage, b.texture_usage)]
    ELSE NoIntersection

\* A structure is a subset of another: every field of the other is in it
\* with the same value.
IsSubset(a, b) ==
    /\ a.feature = b.feature /\ a.format = b.format
    /\ b.buffer_usage.present => a.buffer_usage = b.buffer_usage
    /\ b.texture_usage.present => a.texture_usage = b.texture_usage

\* gst_caps_merge_structure_full: the structure is appended unless the caps
\* express it already.
MergeStructure(dest, s) ==
    IF s = NoIntersection \/ \E i \in 1..Len(dest) : IsSubset(s, dest[i]) THEN dest
    ELSE Append(dest, s)

\* filter.intersect_with_mode(caps, CapsIntersectMode::First): the pairs in
\* the order of the filter, then of the caps.
RECURSIVE IntersectFirst(_, _, _)
IntersectFirst(filter, caps, k) ==
    IF k = 0 THEN <<>>
    ELSE MergeStructure(IntersectFirst(filter, caps, k - 1),
                        StructureIntersect(filter[((k - 1) \div Len(caps)) + 1],
                                           caps[((k - 1) % Len(caps)) + 1]))

\* The end of every transform_caps: the caps through the optional filter.
Filtered(filter, other_caps) ==
    IF filter.given
    THEN IntersectFirst(filter.caps, other_caps, Len(filter.caps) * Len(other_caps))
    ELSE other_caps

\* The host asks the stage to rewrite caps of one of its pads.
TransformCaps(direction, caps, filter) ==
    /\ Callable
    /\ call' = [NoCall EXCEPT !.op = "transform_caps", !.ret = "Ok",
                              !.direction = direction, !.caps = caps,
                              !.filter = filter,
                              !.offered =
                                Filtered(filter,
                                         TransformCapsOf(stage, direction, caps))]
    /\ UNCHANGED <<stage, sink_usages, src_usages, video_info, in_info,
                   passthrough, panicked>>
    /\ UNCHANGED <<memVars, ctxVars, poll_type, sobelVars, pipe, elem>>

\* The host asks the stage to rewrite what it offered, in the opposite
\* direction.
TransformCapsBack ==
    /\ Callable
    /\ call.op = "transform_caps" /\ call.returned = <<>>
    /\ call' = [call EXCEPT
                 !.returned = TransformCapsOf(stage, Opposite(call.direction),
                                              call.offered)]
    /\ UNCHANGED <<stage, sink_usages, src_usages, video_info, in_info,
                   passthrough, panicked>>
    /\ UNCHANGED <<memVars, ctxVars, poll_type, sobelVars, pipe, elem>>

\* transform_caps reads and writes no field of the stage, so every call
\* finds the stage as the first one does: one call and its way back are
\* taken from the stage at rest.
CapsNext ==
    \/ \E direction \in (IF call.op = "none" THEN {"Sink", "Src"} ELSE {}) :
        \E caps \in CapsOf(PadKind(stage, direction)) :
            \E filter \in Filters(PadKind(stage, Opposite(direction))) :
                TransformCaps(direction, caps, filter)
    \/ TransformCapsBack

CapsSpec == StageInit /\ [][CapsNext]_vars

\* What set_caps of the stage requires of the usage mask of a pad.
MaskAccepted(s, pad, mask) ==
    CASE s = "Upload" -> mask \cap {"MAP_WRITE"} # {}
      [] s = "Download" -> mask \cap {"MAP_WRITE", "MAP_READ"} # {}
      [] s \in {"TextureUpload", "TextureCopy"} ->
            IF pad = "Sink" THEN mask \cap {"COPY_SRC"} # {}
            ELSE mask \cap {"COPY_DST"} # {}
      [] s = "ComputeFilter" ->
            IF pad = "Sink" THEN {"COPY_SRC"} \subseteq mask
            ELSE {"COPY_DST"} \subseteq mask

\* A structure is fit for a pad of the stage: of the pad's memory kind, with
\* the usage field of that kind alone, its mask accepted by set_caps; no
\* usage field at all on a pad of system memory.
FitsPad(s, pad, d) ==
    /\ d.feature = PadKind(s, pad)
    /\ CASE PadKind(s, pad) = "system" ->
                ~d.buffer_usage.present /\ ~d.texture_usage.present
         [] PadKind(s, pad) = "buffer" ->
                /\ d.buffer_usage.present /\ ~d.texture_usage.present
                /\ MaskAccepted(s, pad, d.buffer_usage.bits)
         [] PadKind(s, pad) = "texture" ->
                /\ d.texture_usage.present /\ ~d.buffer_usage.present
                /\ MaskAccepted(s, pad, d.texture_usage.bits)

\* C27: caps rewritten by transform_caps in one direction and then back in
\* the other give structures that each have the fields other than the usage
\* of a structure of the original caps, and a usage mask set_caps accepts on
\* that pad, or no usage field where the pad is of system memory.
C27_RewriteThereAndBack ==
    (call.op = "transform_caps" /\ call.returned # <<>>) =>
        \A k \in 1..Len(call.returned) :
            /\ \E j \in 1..Len(call.caps) :
                call.returned[k].format = call.caps[j].format
            /\ FitsPad(stage, call.direction, call.returned[k])

\* Caps of two structures of different formats went there and back through
\* the texture upload, from its texture side.
C27_Witness ==
    /\ stage = "TextureUpload"
    /\ call.op = "transform_caps" /\ call.direction = "Src"
    /\ Len(call.caps) = 2 /\ call.caps[1].format # call.caps[2].format
    /\ Len(call.returned) > Len(call.offered)

(***************************************************************************)
(* start of a stage: finding or creating the device context                *)
(***************************************************************************)
\* What surrounds the element when start runs: a WGPU context is "set" on
\* it already, a peer "downstream" or "upstream" answers the context query,
\* the element has a "bus" to post messages on, the "application" answers
\* the need-context message by setting a context.
Surroundings == SUBSET {"set", "downstream", "upstream", "bus", "application"}

\* WgpuContext::query_context_from_pads: the element's context, then the
\* query on every src pad, then on every sink pad.
QueryContextFromPads(e) ==
    IF "set" \in e THEN [found |-> TRUE, trace |-> <<"element">>]
    ELSE IF "downstream" \in e
    THEN [found |-> TRUE, trace |-> <<"element", "src_pads">>]
    ELSE IF "upstream" \in e
    THEN [found |-> TRUE, trace |-> <<"element", "src_pads", "sink_pads">>]
    ELSE [found |-> FALSE, trace |-> <<"element", "src_pads", "sink_pads">>]

\* WgpuContext::query_context_by_message: post_message fails on an element
\* without bus; otherwise the answer is whether a context is set after it.
QueryContextByMessage(e) ==
    IF "bus" \notin e THEN "Err"
    ELSE IF "application" \in e THEN "Ok(true)" ELSE "Ok(false)"

\* WgpuContext::query_context_from_nearby_elements.
QueryContextFromNearbyElements(e) ==
    LET p == QueryContextFromPads(e) IN
    IF p.found THEN [ret |-> "Ok(true)", trace |-> p.trace]
    ELSE [ret |-> QueryContextByMessage(e),
          trace |-> Append(p.trace, "need_context")]

\* create_own_context: a new context is set on the element, then the
\* have-context message is posted and the result unwrapped.
CreateOwnContext(e) ==
    IF "bus" \in e
    THEN [ret |-> "Ok", trace |-> <<"create", "have_context">>, published |-> TRUE]
    ELSE [ret |-> "Panicked", trace |-> <<"create">>, published |-> FALSE]

\* BaseTransformImpl::start of a stage.
Start(e) ==
    /\ Callable
    /\ call.op = "none"
    /\ LET q == QueryContextFromNearbyElements(e)
           c == CreateOwnContext(e)
       IN IF q.ret = "Ok(true)"
          THEN /\ call' = [NoCall EXCEPT !.op = "start", !.ret = "Ok", !.env = e,
                                         !.trace = q.trace, !.context = "shared"]
               /\ panicked' = FALSE
          ELSE /\ call' = [NoCall EXCEPT !.op = "start", !.ret = c.ret, !.env = e,
                                         !.trace = q.trace \o c.trace,
                                         !.context = "own", !.created = TRUE,
                                         !.published = c.published]
               /\ panicked' = (c.ret = "Panicked")
    /\ UNCHANGED <<stage, sink_usages, src_usages, video_info, in_info, passthrough>>
    /\ UNCHANGED <<memVars, ctxVars, poll_type, sobelVars, pipe, elem>>

\* An element of any of the five kinds that has not been started.
StartInit == StageInit

StartNext == \E e \in Surroundings : Start(e)

StartSpec == StartInit /\ [][StartNext]_vars

\* The attempts to obtain a shared context, in their order.
Attempts == <<"element", "src_pads", "sink_pads", "need_context">>

\* C28: start creates a context only after the four attempts, made in
\* their order, have all failed, and then publishes it with have-context;
\* when a shared context is found none is created.
C28_OwnContextLastResort ==
    call.op = "start" =>
        /\ \A k \in 1..Len(call.trace) : k <= Len(Attempts) => call.trace[k] = Attempts[k]
        /\ call.created =>
            /\ Len(call.trace) > Len(Attempts)
            /\ call.trace[Len(Attempts) + 1] = "create"
            /\ call.env \cap {"set", "downstream", "upstream"} = {}
            /\ ~({"bus", "application"} \subseteq call.env)
            /\ call.published
        /\ call.context = "shared" => ~call.created

(***************************************************************************)
(* Properties of decide_allocation                                         *)
(***************************************************************************)
\* The GPU memory kind of the stage's output and the usage bits the stage
\* needs on it to write its output.
OutputKind(s) == IF s \in {"Upload", "Download"} THEN "buffer" ELSE "texture"
OutputRequires(s) ==
    CASE s = "Upload" -> {"MAP_WRITE"}
      [] s = "Download" -> {"MAP_READ", "COPY_DST"}
      [] OTHER -> {"COPY_DST"}

\* The usage mask the memories of an allocator come with: its explicit
\* usage, or what alloc derives from the flags of the allocation params.
BoundMask(a) ==
    IF a.explicit THEN a.usage
    ELSE AllocUsages(IF a.readonly THEN {"READONLY"} ELSE {})

\* C29: when decide_allocation has returned Ok with the stage not in
\* pass-through, every allocator left in the query is of the stage's GPU
\* memory kind and allocates with a usage mask that has every bit the stage
\* needs to write its output.
C29_KeptAllocatorsFit ==
    (call.op = "decide_allocation" /\ call.ret = "Ok" /\ ~passthrough) =>
        \A k \in 1..Len(call.query) :
            /\ call.query[k].kind = OutputKind(stage)
            /\ OutputRequires(stage) \subseteq BoundMask(call.query[k])

\* The test each stage's decide_allocation makes on a proposed allocator.
StageKeeps(a) ==
    CASE stage = "Upload" -> UploadKeeps(a)
      [] stage = "Download" -> DownloadKeeps(a)
      [] OTHER -> TextureKeeps(a)

\* The query decide_allocation left is what the claim describes: the
\* proposals that passed the stage's test if there are any, and otherwise
\* the one allocator of the stage, bound to the fixed output mask and, in
\* the texture stages, to the fixed width and height.
FilteredOrOwn ==
    /\ Len(call.query) > 0
    /\ call.added = 1 <=> SelectSeq(call.proposed, StageKeeps) = <<>>
    /\ call.added = 0 => call.query = SelectSeq(call.proposed, StageKeeps)
    /\ call.added = 1 =>
        /\ Len(call.query) = 1
        /\ call.query[1].kind = OutputKind(stage)
        /\ call.query[1].explicit
        /\ call.query[1].usage =
             (IF stage = "Download" THEN {"COPY_DST", "MAP_READ"} ELSE src_usages)
        /\ stage \in {"TextureUpload", "TextureCopy"} =>
             /\ call.query[1].width = in_info.width
             /\ call.query[1].height = in_info.height

UploadOfferedMasks == <<{"MAP_WRITE"}, {"MAP_WRITE", "COPY_SRC"}>>

\* The caps are the offer of the upload for the candidates: two structures
\* for each candidate in the order of the candidates, the first with the
\* first mask and the second with the second, all of WGPU buffer memory.
IsGpuOffer(offer, candidates) ==
    /\ Len(offer) = 2 * Len(candidates)
    /\ \A j \in 1..Len(candidates) : \A m \in 1..2 :
        LET d == offer[2 * (j - 1) + m]
        IN /\ d.format = candidates[j].format
           /\ d.texture_usage = candidates[j].texture_usage
           /\ d.feature = "buffer"
           /\ d.buffer_usage = Usage(UploadOfferedMasks[m])

\* The caps are the candidates with the usage field taken out of each.
IsStripped(offer, candidates) ==
    /\ Len(offer) = Len(candidates)
    /\ \A j \in 1..Len(candidates) :
        /\ offer[j].format = candidates[j].format
        /\ ~offer[j].buffer_usage.present

\* C31: transform_caps of the upload turns candidates of its host side into
\* one structure for each candidate and each of the masks {MAP_WRITE} and
\* {MAP_WRITE, COPY_SRC}, in the order of the candidates, and candidates of
\* its GPU side into the same structures without usage field; with a filter
\* the result is the intersection of the filter with these caps, and no
\* structure offered for the GPU side has another mask.
C31_UploadOffers ==
    (stage = "Upload" /\ call.op = "transform_caps") =>
        /\ \E other \in {TransformCapsOf("Upload", call.direction, call.caps)} :
            /\ IF call.direction = "Sink" THEN IsGpuOffer(other, call.caps)
               ELSE IsStripped(other, call.caps)
            /\ call.offered = Filtered(call.filter, other)
        /\ call.direction = "Sink" =>
            \A k \in 1..Len(call.offered) :
                /\ call.offered[k].buffer_usage.present
                /\ call.offered[k].buffer_usage.bits
                     \in {{"MAP_WRITE"}, {"MAP_WRITE", "COPY_SRC"}}

\* The upload has offered its GPU side for two candidates of different
\* formats through a filter that lets one of them pass with both masks.
C31_Witness ==
    /\ stage = "Upload" /\ call.op = "transform_caps"
    /\ call.direction = "Sink" /\ call.filter.given
    /\ Len(call.caps) = 2 /\ call.caps[1].format # call.caps[2].format
    /\ Len(call.offered) = 2
    /\ call.offered[1].buffer_usage # call.offered[2].buffer_usage

(***************************************************************************)
(* Order of the device work of the compute filters                         *)
(***************************************************************************)
\* The places of a step in the trace of the last call.
Places(step) == {k \in 1..Len(call.trace) : call.trace[k] = step}

\* C32: a transform of a compute filter that records commands records the
\* copy of the input buffer into the input texture, the dispatch and the
\* copy of the output texture into the output buffer, in this order, and
\* submits them once; wgpusobelmem reads its output only behind the wait
\* for the submission, and only when it returns Ok; wgpusobelbuf returns Ok
\* behind the submission without a wait.
C32_CopyDispatchCopyOneSubmit ==
    (stage \in {"ComputeFilter", "SobelMem"} /\ call.op = "transform") =>
        /\ call.ret = "Ok" => call.cmds # <<>>
        /\ call.cmds # <<>> =>
            /\ [k \in 1..Len(call.cmds) |-> call.cmds[k].kind]
                 = <<"copy_buffer_to_texture", "dispatch_workgroups",
                     "copy_texture_to_buffer">>
            /\ call.cmds[1].src = (IF stage = "SobelMem" /\ call.inmem.kind # "buffer"
                                   THEN StagingInput ELSE call.inmem)
            /\ call.cmds[1].dst = InputTexture
            /\ call.cmds[3].src = OutputTexture
            /\ call.cmds[3].dst = (IF stage = "SobelMem" THEN StagingOutput
                                   ELSE call.outmem)
            /\ Places("submit") = {1}
        /\ call.cmds = <<>> => Places("submit") = {}
        /\ stage = "SobelMem" =>
            /\ \A k \in Places("read_output") :
                \E j \in Places("poll_wait") : j < k
            /\ Places("read_output") # {} <=> call.ret = "Ok"
        /\ stage = "ComputeFilter" => Places("poll_wait") = {}

\* wgpusobelmem has transformed a frame of system memory through its staging
\* buffers and read the output behind the wait.
C32_Witness ==
    /\ stage = "SobelMem" /\ call.op = "transform" /\ call.ret = "Ok"
    /\ call.inmem.kind = "system"
    /\ Places("poll_wait") # {} /\ Places("read_output") # {}
    /\ Len(call.cmds) = 3

(***************************************************************************)
(* The staging textures of the compute filters                             *)
(***************************************************************************)
ComputeFilters == {"ComputeFilter", "SobelMem"}

SharedContexts == {"A", "B"}
GivenContexts == SharedContexts \cup {"invalid", "foreign"}

\* A faulty variant: the context given takes the place of the one stored.
SetWgpuContextReplacing(stored, context) == context

\* set_wgpu_context of every stage: the field is written when it is None.
SetWgpuContext(stored, context) ==
    IF stored # "none" THEN stored ELSE context

\* ElementImpl::set_context of every stage: a context of the WGPU type goes
\* through map_gst_context_to_wgpu to set_wgpu_context, an invalid one ends
\* the call; parent_set_context then stores the context in the element,
\* where a context of another type leaves the one of the WGPU type.
ElementSetContext(e, context) ==
    CASE context \in {"invalid", "none"} -> e
      [] context = "foreign" -> e
      [] OTHER -> [e EXCEPT !.wgpu_context = SetWgpuContext(e.wgpu_context, context),
                            !.element_context = context]

\* set_context called on the element by the application or by the bin, on
\* their thread.
ExternalSetContext(context) ==
    /\ ~panicked
    /\ elem' = ElementSetContext(elem, context)
    /\ UNCHANGED <<stage, sink_usages, src_usages, video_info, in_info,
                   passthrough, panicked, call>>
    /\ UNCHANGED <<memVars, ctxVars, poll_type, sobelVars, pipe>>

\* start up to the result of query_context_from_nearby_elements: the
\* element's context is looked up; without one a peer or the handler of the
\* need-context message may set theirs, and it is looked up again.
StartQuery(answer) ==
    /\ ~panicked
    /\ elem.spc \in {"idle", "done"}
    /\ LET e == IF elem.element_context # "none" THEN elem
                ELSE ElementSetContext(elem, answer)
       IN elem' = [e EXCEPT !.spc = IF e.element_context # "none" THEN "done"
                                    ELSE "create"]
    /\ UNCHANGED <<stage, sink_usages, src_usages, video_info, in_info,
                   passthrough, panicked, call>>
    /\ UNCHANGED <<memVars, ctxVars, poll_type, sobelVars, pipe>>

\* create_own_context up to the message: WgpuContext::default() and
\* self.set_context(&ctx).
StartCreate ==
    /\ ~panicked
    /\ elem.spc = "create"
    /\ elem' = [ElementSetContext(elem, "own") EXCEPT !.created = "own",
                                                      !.spc = "publish"]
    /\ UNCHANGED <<stage, sink_usages, src_usages, video_info, in_info,
                   passthrough, panicked, call>>
    /\ UNCHANGED <<memVars, ctxVars, poll_type, sobelVars, pipe>>

\* The end of create_own_context: the have-context message with the context
\* created is posted; post_message fails on an element without bus and the
\* unwrap panics.
StartPublish(bus) ==
    /\ ~panicked
    /\ elem.spc = "publish"
    /\ elem' = [elem EXCEPT !.published = IF bus THEN elem.created ELSE @,
                            !.spc = "done"]
    /\ panicked' = ~bus
    /\ UNCHANGED <<stage, sink_usages, src_usages, video_info, in_info,
                   passthrough, call>>
    /\ UNCHANGED <<memVars, ctxVars, poll_type, sobelVars, pipe>>

\* An element of any kind that was not started.
StageUnstarted ==
    /\ stage \in VideoFilters \cup Stages
    /\ sink_usages = {} /\ src_usages = {}
    /\ video_info = FALSE /\ passthrough = FALSE /\ panicked = FALSE
    /\ in_info = NoInfo
    /\ call = NoCall
    /\ input_buffer = "none" /\ output_buffer = "none"
    /\ pipeline = NoPipeline
    /\ elem = NoElem
    /\ pipe = NoPipe
    /\ poll_type = "Threaded"
    /\ MemIdle
    /\ CtxIdle

SetContextNext ==
    \/ \E c \in GivenContexts : ExternalSetContext(c)
    \/ \E c \in SharedContexts \cup {"none", "invalid"} : StartQuery(c)
    \/ StartCreate
    \/ \E bus \in BOOLEAN : StartPublish(bus)

SetContextSpec == StageUnstarted /\ [][SetContextNext]_vars

\* C34: the context of the have-context message the stage posted is the
\* context the stage stores for its device operations.
C34_PublishedIsUsed ==
    elem.published # "none" => elem.published = elem.wgpu_context

\* C37: once the stage stores a context, no step changes it.
C37_ContextWriteOnce ==
    [][elem.wgpu_context # "none" => elem'.wgpu_context = elem.wgpu_context]_vars

\* The stage stores one shared context and the element holds the other, set
\* on it later.
C37_Witness ==
    /\ elem.wgpu_context = "A" /\ elem.element_context = "B"
    /\ elem.spc = "done"

(***************************************************************************)
(* decide_allocation of the download once fixed                            *)
(***************************************************************************)
\* C35: in a download on which a set_caps has succeeded, a decide_allocation
\* returns Ok with pass-through on, the query as it was proposed and no
\* allocator added.
C35_FixedDownloadPassesThrough ==
    (stage = "Download" /\ video_info /\ call.op = "decide_allocation") =>
        /\ call.ret = "Ok"
        /\ passthrough
        /\ call.query = call.proposed
        /\ call.added = 0

\* A fixed download with pass-through off was handed a query whose one
\* proposal is no WGPU buffer allocator, and left it in.
C35_Witness ==
    /\ stage = "Download" /\ video_info
    /\ call.op = "decide_allocation" /\ ~call.was
    /\ Len(call.proposed) = 1 /\ ~DownloadKeeps(call.proposed[1])
    /\ call.query = call.proposed /\ passthrough

(***************************************************************************)
(* set_caps that fails                                                     *)
(***************************************************************************)
\* C36: a set_caps that returns an error leaves the usage masks the stage
\* recorded for its two sides as they were.
C36_FailedSetCapsStoresNothing ==
    [][(call'.op = "set_caps" /\ call'.ret = "Err") =>
            /\ sink_usages' = sink_usages
            /\ src_usages' = src_usages]_vars

(***************************************************************************)
(* Signals of before_transform                                             *)
(***************************************************************************)
\* C39: a before_transform has called set_passthrough and reconfigure_src
\* exactly when it left the pass-through flag other than it found it.
C39_SignalsOnlyOnChange ==
    (call.op = "before_transform" /\ call.ret = "Done") =>
        (call.signalled <=> passthrough # call.was)

(***************************************************************************)
(* What a stage offers against what it accepts                             *)
(***************************************************************************)
\* set_caps of each stage on a pair of caps.
SetCapsOf(s, incaps, outcaps) ==
    CASE s = "Upload" -> UploadSetCaps(incaps, outcaps)
      [] s = "Download" -> DownloadSetCaps(incaps, outcaps)
      [] s = "TextureUpload" -> TextureUploadSetCaps(incaps, outcaps)
      [] s = "TextureCopy" -> TextureCopySetCaps(incaps, outcaps)
      [] s = "ComputeFilter" -> SobelBufSetCaps(incaps, outcaps)

\* What set_caps reads of a structure lying on a pad of the stage: the
\* usage field of the pad's memory kind.
AsCaps(s, pad, d) ==
    LET field == IF PadKind(s, pad) = "texture" THEN d.texture_usage
                 ELSE d.buffer_usage
    IN IF PadKind(s, pad) # "system" /\ field.present THEN UsageCaps(field.bits)
       ELSE NoField

\* The caps the stage offers on a pad, as set_caps reads them.
OfferedOn(s, pad) ==
    IF PadKind(s, pad) = "system" THEN {NoField}
    ELSE {UsageCaps(AllowedUsages(s, pad)[k]) :
            k \in 1..Len(AllowedUsages(s, pad))}

\* C38: every structure transform_caps returns for a pad is one set_caps of
\* the same stage accepts on that pad, with any caps the stage offers on
\* the other pad, and set_caps records the mask of the structure for it.
C38_OffersAreAccepted ==
    call.op = "transform_caps" =>
        LET pad == Opposite(call.direction) IN
        \A k \in 1..Len(call.offered) :
            \A partner \in OfferedOn(stage, call.direction) :
                LET mine == AsCaps(stage, pad, call.offered[k])
                    r == IF pad = "Sink" THEN SetCapsOf(stage, mine, partner)
                         ELSE SetCapsOf(stage, partner, mine)
                IN /\ r.ret = "Ok"
                   /\ PadKind(stage, pad) # "system" =>
                        /\ mine # NoField
                        /\ (IF pad = "Sink" THEN r.sink ELSE r.src) = mine.bits

\* The compute filter has offered the two masks of its source pad for
\* candidates of its sink pad.
C38_Witness ==
    /\ stage = "ComputeFilter" /\ call.op = "transform_caps"
    /\ call.direction = "Sink" /\ ~call.filter.given
    /\ Len(call.caps) = 1 /\ Len(call.offered) = 2
    /\ call.offered[1].buffer_usage.bits = {"COPY_DST"}
    /\ call.offered[2].buffer_usage.bits = {"COPY_DST", "MAP_READ"}

(***************************************************************************)
(* The view at free                                                        *)
(***************************************************************************)
\* C40: an object whose device resource free has released holds no view.
C40_NoViewOutlivesBuffer ==
    (\E k \in 1..Len(released) : released[k] = "resource") => buffer_view = NoView

====
